---- MODULE Spec2Model ----
(***************************************************************************)
(* Model of the journal-club-core scripts: the figure/table extraction of  *)
(* pdffigures2-python.py and pymupdf-extractor.py, the command-line entry  *)
(* points of the scripts, and the multi-source PDF fetcher.                *)
(*                                                                         *)
(* Text is modelled as a sequence of tokens: a token is either one blank   *)
(* " " or a maximal run of non-blank characters, so two strings are equal  *)
(* exactly when their token sequences are equal and string concatenation   *)
(* is sequence concatenation.  Page coordinates are integers.              *)
(***************************************************************************)
EXTENDS Integers, Sequences, FiniteSets, TLC

VARIABLES
    \* _merge_multipage_elements
    figures,        \* the list of Figure objects handed to the merge (mutated in place)
    figures0,       \* the same list as it was on entry (history)
    merged,         \* the result list; holds references (indices) into figures
    skip_indices,   \* indices of dropped continuation records
    mi,             \* loop index i (1-based)
    mpc             \* "idle" | "loop" | "done"

mergeVars == <<figures, figures0, merged, skip_indices, mi, mpc>>

VARIABLES
    \* _find_nearest_caption
    figure_bbox,    \* argument: the element's bounding box
    captions,       \* argument: the caption candidates, in scan order
    nk,             \* position of the `for caption in captions` loop (1-based)
    best_caption,   \* index of the best caption so far, 0 for None
    best_distance,  \* its distance, Infinity before any caption was taken
    npc             \* "idle" | "loop" | "done"

nearestVars == <<figure_bbox, captions, nk, best_caption, best_distance, npc>>

VARIABLES
    \* PDFFigures2Python.extract on a one-page document
    page,           \* the page: text blocks, embedded images, drawings
    page_captions,  \* captions = self._find_captions(blocks)
    all_figures,    \* the Figure objects collected so far
    results,        \* results['figures'], the records written to the output JSON
    xpc             \* "idle" | "captions" | "images" | "tables" | "vector"
                    \* | "merge" | "convert" | "done"

extractVars == <<page, page_captions, all_figures, results, xpc>>

VARIABLES
    \* PyMuPDFExtractor.extract on a one-page document
    pm_page,        \* the page: its text, embedded images, drawings
    pm_results,     \* results['figures']
    pm_i,           \* position of the image loop, then of the drawing loop
    pm_pc           \* "idle" | "images" | "drawings" | "done"

pymuVars == <<pm_page, pm_results, pm_i, pm_pc>>

VARIABLES
    \* one run of a script from the command line
    script,         \* which script is run
    args_ok,        \* the required arguments are on the command line
    help_asked,     \* -h or --help is on the command line
    to_file,        \* chandra-extractor: --output names a file
    write_ok,       \* chandra-extractor: the --output file can be written
    outcome,        \* what the top-level operation does: [kind, msg]
    op_result,      \* what the operation returned to the entry point
    stdout,         \* the JSON objects and text lines printed to standard output
    exit_code,      \* the exit code of the process, -1 while it runs
    cpc             \* "idle" | "args" | "run" | "report" | "exit"

cliVars == <<script, args_ok, help_asked, to_file, write_ok, outcome, op_result, stdout, exit_code, cpc>>

VARIABLES
    \* main of pdf-fetcher-python-fallback.py
    has_doi,        \* len(sys.argv) >= 2
    fk,             \* position of `for source_name, fetch_func in sources`
    attempts,       \* the calls fetch_func(doi) made so far: [source, outcome]
    f_stdout,       \* the JSON objects printed to standard output
    f_exit,         \* the exit code, -1 while main runs
    fpc             \* "idle" | "args" | "loop" | "exit"

fetchVars == <<has_doi, fk, attempts, f_stdout, f_exit, fpc>>

VARIABLES
    \* _group_drawings
    g_drawings,     \* argument: the drawings of page.get_drawings()
    g_groups,       \* the groups returned, each a sequence of indices into g_drawings
    gpc             \* "idle" | "call" | "done"

groupVars == <<g_drawings, g_groups, gpc>>

VARIABLES
    \* PDFFigures2Python.extract on a document of several pages
    document,       \* the PDF: whether fitz.open raises, and its pages
    doc_page_num,   \* position of `for page_num in range(len(doc))` (0-based)
    doc_figures,    \* all_figures
    doc_results,    \* the dictionary `results`: success, figures, error
    dpc             \* "idle" | "open" | "pages" | "merge" | "convert" | "return"

docVars == <<document, doc_page_num, doc_figures, doc_results, dpc>>

VARIABLES
    \* PDFFigures2Extractor.extract (pdffigures2-extractor.py)
    pf_pdf_path,    \* argument pdf_path: a path, or None
    pf_output_dir,  \* output_dir: None, the caller's directory or the temporary one
    pf_given,       \* the output_dir argument as the caller gave it
    pf_cleanup,     \* cleanup
    pf_dirs,        \* the directories that exist in the file system
    pf_data,        \* extraction_data, the parsed JSON output
    pf_result,      \* the dictionary returned, None before the return statement
    pf_pc           \* "idle" | "call" | "paths" | "run" | "parse" | "build"
                    \* | "finally" | "returned" | "raised"

pfVars == <<pf_pdf_path, pf_output_dir, pf_given, pf_cleanup, pf_dirs, pf_data,
            pf_result, pf_pc>>

VARIABLES
    \* PyMuPDFExtractor.extract on a document of several pages
    pmd_doc,        \* the document: whether fitz.open raises, and its pages
    pmd_page_num,   \* page_num of the page loop (0-based)
    pmd_results,    \* results: success, figures, error
    pmd_pc          \* "idle" | "open" | "pages" | "finish" | "done"

pmdVars == <<pmd_doc, pmd_page_num, pmd_results, pmd_pc>>

VARIABLES
    \* a call of sanitize_for_filename of universal-text-sanitizer.py
    san_text,       \* argument text, a sequence of characters
    san_out,        \* the value returned, None when the call did not return
    san_pc          \* "idle" | "load" | "raised"

sanVars == <<san_text, san_out, san_pc>>

VARIABLES
    \* extract_table_from_position (fixed_numbering_formatter.py, readable_formatter.py)
    tab_file,       \* which of the two files the function is taken from
    tab_lines,      \* argument lines, each a sequence of tokens
    tab_start,      \* argument start_idx (0-based)
    tab_headers,    \* headers
    tab_rows,       \* rows
    tab_original,   \* original_text_lines, as 0-based indices into lines
    tab_i,          \* i of the while loop (0-based)
    tab_out,        \* the value returned: None, or <<table>>
    tab_pc          \* "idle" | "headers" | "rows" | "done"

tabVars == <<tab_file, tab_lines, tab_start, tab_headers, tab_rows, tab_original,
             tab_i, tab_out, tab_pc>>

VARIABLES
    \* one call of _find_captions on the text of a page
    cl_blocks,      \* argument blocks['blocks']
    cl_captions,    \* the list returned
    cl_pc           \* "idle" | "call" | "done"

clVars == <<cl_blocks, cl_captions, cl_pc>>

vars == <<mergeVars, nearestVars, extractVars, pymuVars, cliVars, fetchVars,
          groupVars, docVars,
          pfVars,
          pmdVars,
          sanVars,
          tabVars,
          clVars>>

(***************************************************************************)
(* Bounds                                                                  *)
(***************************************************************************)
MaxFigs == 3
MaxCaptions == 3
MaxLines == 2
MaxImages == 2
MaxPaths == 5
MaxPmImages == 2
MaxPmDrawings == 2
MaxGroupPaths == 4
MaxPages == 3
MaxPfFigs == 2
MaxSanChars == 3
MaxTabLines == 4

(***************************************************************************)
(* Text helpers                                                            *)
(***************************************************************************)
SP == " "

\* str.lower() on one token of the vocabulary
Lower(tok) ==
    CASE tok = "Table"        -> "table"
      [] tok = "TABLE"        -> "table"
      [] tok = "Tbl."         -> "tbl."
      [] tok = "Figure"       -> "figure"
      [] tok = "FIGURE"       -> "figure"
      [] tok = "Fig."         -> "fig."
      [] tok = "Fig"          -> "fig"
      [] tok = "FIG."         -> "fig."
      [] tok = "FIG"          -> "fig"
      [] tok = "Figures"      -> "figures"
      [] tok = "Tbl"          -> "tbl"
      [] tok = "TBL"          -> "tbl"
      [] tok = "TBL."         -> "tbl."
      [] tok = "SUPPLEMENTARY" -> "supplementary"
      [] tok = "APPENDIX"     -> "appendix"
      [] tok = "In"           -> "in"
      [] tok = "X"            -> "x"
      [] tok = "Supplementary" -> "supplementary"
      [] tok = "Appendix"     -> "appendix"
      [] tok = "(Continued)"  -> "(continued)"
      [] tok = "Cont."        -> "cont."
      [] tok = "IV"           -> "iv"
      [] tok = "Results"      -> "results"
      [] tok = "Tables"       -> "tables"
      [] tok = "S1"           -> "s1"
      [] tok = "Diagram"      -> "diagram"
      [] tok = "Chart"        -> "chart"
      [] tok = "Graph"        -> "graph"
      [] OTHER                -> tok

\* `word in token` for the four continuation words of continuation_words
ContainsContinuationWord(tok) ==
    tok \in {"continued", "(continued)", "discontinued", "cont.", "(cont.)",
             "cont'd", "(cont'd)", "continuation"}

\* any(word in fig.caption.lower() for word in self.continuation_words)
is_continuation(caption) ==
    \E k \in 1..Len(caption) : ContainsContinuationWord(Lower(caption[k]))

\* one token after str.replace('continued', '')
ReplaceContinuedTok(tok) ==
    CASE tok = "continued"    -> ""
      [] tok = "(continued)"  -> "()"
      [] tok = "discontinued" -> "dis"
      [] OTHER                -> tok

RECURSIVE DropEmpty(_)
DropEmpty(s) ==
    IF s = <<>> THEN <<>>
    ELSE IF Head(s) = "" THEN DropEmpty(Tail(s))
    ELSE <<Head(s)>> \o DropEmpty(Tail(s))

\* the whitespace tokens: what \s matches and str.strip() removes
IsBlank(tok) == tok \in {SP, "  ", "\t", "\n"}

\* the number of whitespace tokens of text from token k on
RECURSIVE blank_run(_, _)
blank_run(text, k) ==
    IF k > Len(text) THEN 0
    ELSE IF ~IsBlank(text[k]) THEN 0
    ELSE 1 + blank_run(text, k + 1)

\* the number of tokens that are no whitespace from token k on: \S+
RECURSIVE nonblank_run(_, _)
nonblank_run(text, k) ==
    IF k > Len(text) THEN 0
    ELSE IF IsBlank(text[k]) THEN 0
    ELSE 1 + nonblank_run(text, k + 1)

RECURSIVE LStrip(_)
LStrip(s) ==
    IF s = <<>> THEN <<>>
    ELSE IF IsBlank(Head(s)) THEN LStrip(Tail(s)) ELSE s

RECURSIVE RStrip(_)
RStrip(s) ==
    IF s = <<>> THEN <<>>
    ELSE IF IsBlank(s[Len(s)]) THEN RStrip(SubSeq(s, 1, Len(s) - 1)) ELSE s

\* str.strip()
Strip(s) == RStrip(LStrip(s))

\* fig.name.replace('continued', '').strip()
base_name(name) ==
    Strip(DropEmpty([k \in 1..Len(name) |-> ReplaceContinuedTok(name[k])]))

(***************************************************************************)
(* BoundingBox                                                             *)
(***************************************************************************)
BoundingBox(x1, y1, x2, y2) == [x1 |-> x1, y1 |-> y1, x2 |-> x2, y2 |-> y2]

\* BoundingBox.area
area(b) == (b.x2 - b.x1) * (b.y2 - b.y1)

Abs(x) == IF x < 0 THEN 0 - x ELSE x

(***************************************************************************)
(* _find_nearest_caption                                                   *)
(***************************************************************************)
\* float('inf'): larger than every distance on a page
Infinity == 1000000
\* `> 100`: horizontal alignment tolerance
ALIGN_MAX == 100
\* `distance < 100`: vertical adjacency limit
NEAR_MAX == 100

\* abs(caption_bbox.x1 - figure_bbox.x1) > 100 fails: the caption is not skipped
aligned(fb, cb) == ~(Abs(cb.x1 - fb.x1) > ALIGN_MAX)

\* the vertical distance of the if / elif / else
vertical_distance(fb, cb) ==
    IF cb.y1 > fb.y2 THEN cb.y1 - fb.y2
    ELSE IF cb.y2 < fb.y1 THEN fb.y1 - cb.y2
    ELSE 0

\* variant: a caption at the same distance replaces the one found before
takes_over_on_tie(distance, bestd) == distance <= bestd /\ distance < NEAR_MAX

\* variant: the nearest aligned caption is taken however far away it is
takes_over_any_distance(distance, bestd) == distance < bestd

\* distance < best_distance and distance < 100
takes_over(distance, bestd) == distance < bestd /\ distance < NEAR_MAX

\* one iteration of `for caption in captions`
nearest_iteration(fb, caps, k, st) ==
    LET cb == caps[k].bbox
        distance == vertical_distance(fb, cb)
    IN  IF ~aligned(fb, cb) THEN st
        ELSE IF takes_over(distance, st.best_distance)
             THEN [best_caption |-> k, best_distance |-> distance]
             ELSE st

RECURSIVE nearest_scan(_, _, _, _)
nearest_scan(fb, caps, k, st) ==
    IF k > Len(caps) THEN st
    ELSE nearest_scan(fb, caps, k + 1, nearest_iteration(fb, caps, k, st))

\* _find_nearest_caption: the index in caps of the caption returned, 0 for None
find_nearest_caption(fb, caps) ==
    nearest_scan(fb, caps, 1,
                 [best_caption |-> 0, best_distance |-> Infinity]).best_caption

\* element boxes and caption boxes the calls are made with
NearestFigureBoxes ==
    { BoundingBox(100, 100, 300, 300), BoundingBox(150, 330, 350, 530) }

NearestCaptionBoxes ==
    { BoundingBox(100, 310, 300, 320),     \* 10 below the first box, 10 above the second
      BoundingBox(100, 80, 300, 90),       \* 10 above the first box
      BoundingBox(200, 200, 400, 210),     \* overlaps the first box vertically
      BoundingBox(100, 400, 300, 410),     \* exactly 100 below the first box
      BoundingBox(201, 310, 401, 320),     \* 101 right of the first box
      BoundingBox(250, 630, 450, 640) }    \* 100 right of and 100 below the second box

NearestCaptions ==
    { [type |-> t, bbox |-> b] : t \in {"Figure", "Table"}, b \in NearestCaptionBoxes }

(***************************************************************************)
(* _find_captions: the caption patterns on a line of text                  *)
(***************************************************************************)
\* the part of a token matched by (\d+|[IVX]+)\.? ; "" when it does not match.
\* Under re.IGNORECASE [IVX]+ also takes lower-case i, v, x.
numeral_match(tok, ignorecase) ==
    CASE tok \in {"1", "3", "7", "7.", "IV", "X"} -> tok
      [] tok = "7a"  -> "7"
      [] tok = "In"  -> "I"
      [] tok = "in"  -> IF ignorecase THEN "i" ELSE ""
      [] tok = "vs"  -> IF ignorecase THEN "v" ELSE ""
      [] OTHER       -> ""

\* the alternatives (Figure|Fig\.?) and (FIGURE|FIG\.?) resp. the Table ones,
\* each followed by \s+ : the keyword is the whole token
keyword_matches(tok, kind, ignorecase) ==
    LET t == IF ignorecase THEN Lower(tok) ELSE tok
    IN  IF kind = "Figure"
        THEN t \in (IF ignorecase THEN {"figure", "fig", "fig."}
                    ELSE {"Figure", "Fig", "Fig.", "FIGURE", "FIG", "FIG."})
        ELSE t \in (IF ignorecase THEN {"table", "tbl", "tbl."}
                    ELSE {"Table", "Tbl", "Tbl.", "TABLE", "TBL", "TBL."})

\* (Supplementary\s+Figure|Appendix\s+Figure)\s+(\S+) resp. the Table one:
\* the index of the last token of the match, 0 when it does not match
supplementary_end(text, kind, ignorecase) ==
    LET n1 == blank_run(text, 2)
        w == 2 + n1
        n2 == blank_run(text, w + 1)
        label == w + 1 + n2
        a == IF ignorecase THEN Lower(text[1]) ELSE text[1]
    IN  IF Len(text) < 5 \/ n1 = 0 \/ n2 = 0 THEN 0
        ELSE IF a \notin (IF ignorecase THEN {"supplementary", "appendix"}
                         ELSE {"Supplementary", "Appendix"}) THEN 0
        ELSE IF (IF ignorecase THEN Lower(text[w]) ELSE text[w])
                    # (IF ignorecase THEN Lower(kind) ELSE kind) THEN 0
        ELSE IF nonblank_run(text, label) = 0 THEN 0
        ELSE label + nonblank_run(text, label) - 1

supplementary_matches(text, kind, ignorecase) ==
    supplementary_end(text, kind, ignorecase) # 0

\* which alternative of (\d+|[IVX]+) a token starts with
numeral_class(tok) ==
    IF tok \in {"1", "3", "7", "7.", "7a"} THEN "digits" ELSE "roman"

\* what (\d+|[IVX]+)\.? takes from token p on, token p starting a number: a
\* token taken whole is continued by a next token of the same alternative
\* that follows it without a blank
RECURSIVE numeral_run(_, _, _)
numeral_run(text, p, ignorecase) ==
    LET m == numeral_match(text[p], ignorecase)
    IN  IF m # text[p] \/ text[p] = "7." \/ p + 1 > Len(text) THEN <<m>>
        ELSE IF numeral_match(text[p + 1], ignorecase) = ""
                \/ numeral_class(text[p + 1]) # numeral_class(text[p]) THEN <<m>>
        ELSE <<m>> \o numeral_run(text, p + 1, ignorecase)

\* the closing \s* of the numbered patterns, the number ending at token p: the
\* blanks that follow the number, none when the number ends inside its token
trailing_blanks(text, p, ignorecase) ==
    IF numeral_match(text[p], ignorecase) = text[p]
    THEN SubSeq(text, p + 1, p + blank_run(text, p + 1))
    ELSE <<>>

\* the match of (\d+|[IVX]+)\.?\s* after the keyword and its \s+ , <<>> when
\* the keyword is not followed by blanks and a number
numbered_match(text, ignorecase) ==
    LET p == 2 + blank_run(text, 2)
    IN  IF p = 2 \/ p > Len(text) THEN <<>>
        ELSE IF numeral_match(text[p], ignorecase) = "" THEN <<>>
        ELSE SubSeq(text, 1, p - 1) \o numeral_run(text, p, ignorecase)
             \o trailing_blanks(text, p + Len(numeral_run(text, p, ignorecase)) - 1,
                                ignorecase)

\* variant: the keyword is not looked at, any numbered line matches
pattern_match_any_keyword(text, kind, ignorecase) ==
    IF text = <<>> THEN <<>> ELSE numbered_match(text, ignorecase)

\* re.match over the three patterns of one kind, the first that matches:
\* match.group(), or <<>> when none matches
pattern_match(text, kind, ignorecase) ==
    IF text = <<>> THEN <<>>
    ELSE IF keyword_matches(text[1], kind, ignorecase)
            /\ numbered_match(text, ignorecase) # <<>>
    THEN numbered_match(text, ignorecase)
    ELSE IF supplementary_matches(text, kind, ignorecase)
    THEN SubSeq(text, 1, supplementary_end(text, kind, ignorecase))
    ELSE <<>>

\* the captions one line adds: the figure patterns are tried, then the table ones
line_captions(line) ==
    LET f == pattern_match(line.text, "Figure", TRUE)
        t == pattern_match(line.text, "Table", TRUE)
        mk(kind, m) == [type |-> kind, text |-> line.text, bbox |-> line.bbox,
                        match |-> m]
    IN  IF line.text = <<>> THEN <<>>
        ELSE (IF f # <<>> THEN <<mk("Figure", f)>> ELSE <<>>)
             \o (IF t # <<>> THEN <<mk("Table", t)>> ELSE <<>>)

RECURSIVE lines_captions(_)
lines_captions(lines) ==
    IF lines = <<>> THEN <<>>
    ELSE line_captions(Head(lines)) \o lines_captions(Tail(lines))

\* _find_captions(blocks)
RECURSIVE find_captions(_)
find_captions(blocks) ==
    IF blocks = <<>> THEN <<>>
    ELSE (IF Head(blocks).type # 0 THEN <<>> ELSE lines_captions(Head(blocks).lines))
         \o find_captions(Tail(blocks))

\* texts of one line: a keyword, a run of whitespace, a number or a word,
\* and what follows; and the lines of the Supplementary / Appendix patterns
CaptionTexts ==
    { <<kw>> \o ws \o <<num>> \o tail
        : kw \in {"Figure", "FIGURE", "Fig.", "FIG", "Figures", "Table", "TABLE",
                  "Tbl", "TBL.", "table", "Results"},
          ws \in {<<SP>>, <<"  ">>, <<"\t">>, <<SP, SP>>},
          num \in {"7", "7.", "7a", "IV", "in", "shows"},
          tail \in {<<>>, <<SP>>, <<SP, "(continued)">>} }
    \cup { <<a>> \o ws1 \o <<b>> \o ws2 \o <<label>>
             : a \in {"Supplementary", "APPENDIX"}, b \in {"Figure", "TABLE", "Results"},
               ws1 \in {<<SP>>, <<"  ">>}, ws2 \in {<<SP>>, <<"\t">>},
               label \in {"3", "S1"} }
    \cup { <<>>, <<"Table">>, <<"Table", SP>> }

\* one block with one line of one span; type 1 is an image block
CaptionBlocks ==
    { << [type |-> t, bbox |-> BoundingBox(100, 80, 300, 90),
          lines |-> << [text |-> x, bbox |-> BoundingBox(100, 80, 300, 90)] >>] >>
        : t \in {0, 1}, x \in CaptionTexts }

ClIdle ==
    /\ cl_blocks = <<>>
    /\ cl_captions = <<>>
    /\ cl_pc = "idle"

ClStart ==
    /\ cl_blocks \in CaptionBlocks
    /\ cl_captions = <<>>
    /\ cl_pc = "call"

\* captions = self._find_captions(blocks)
ClFind ==
    /\ cl_pc = "call"
    /\ cl_captions' = find_captions(cl_blocks)
    /\ cl_pc' = "done"
    /\ UNCHANGED cl_blocks
    /\ UNCHANGED <<mergeVars, nearestVars, extractVars, pymuVars, cliVars, fetchVars,
                   groupVars, docVars, pfVars, pmdVars, sanVars, tabVars>>

(***************************************************************************)
(* _extract_full_caption                                                   *)
(***************************************************************************)
\* `> ... and ... < 20 and abs(...) < 50`: the line is just below and aligned
BELOW_MAX == 20
INDENT_MAX == 50

\* the lines of one block, from line k on; st.stop is the `break`
RECURSIVE full_caption_lines(_, _, _)
full_caption_lines(lines, k, st) ==
    IF k > Len(lines) \/ st.stop THEN st
    ELSE
        LET lb == lines[k].bbox
            cb == st.bbox
        IN  IF /\ lb.y1 > cb.y2
               /\ lb.y1 - cb.y2 < BELOW_MAX
               /\ Abs(lb.x1 - cb.x1) < INDENT_MAX
            THEN IF \/ pattern_match(lines[k].text, "Figure", FALSE) # <<>>
                    \/ pattern_match(lines[k].text, "Table", FALSE) # <<>>
                 THEN [st EXCEPT !.stop = TRUE]
                 ELSE full_caption_lines(lines, k + 1,
                          [text |-> st.text \o <<SP>> \o lines[k].text,
                           bbox |-> lb, stop |-> FALSE])
            ELSE full_caption_lines(lines, k + 1, st)

RECURSIVE full_caption_blocks(_, _)
full_caption_blocks(blocks, st) ==
    IF blocks = <<>> THEN st
    ELSE full_caption_blocks(Tail(blocks),
             IF Head(blocks).type # 0 THEN st
             ELSE [full_caption_lines(Head(blocks).lines, 1, st) EXCEPT !.stop = FALSE])

\* _extract_full_caption(page, caption_info)
extract_full_caption(pg, caption_info) ==
    Strip(full_caption_blocks(pg.blocks,
              [text |-> caption_info.text, bbox |-> caption_info.bbox,
               stop |-> FALSE]).text)

(***************************************************************************)
(* _merge_multipage_elements                                               *)
(***************************************************************************)
\* for j in range(i-1, -1, -1): the first (highest) j < i whose name equals the
\* base name of figs[i]; 0 when the loop ends without a break
\* variant: the lowest j < i whose name equals the base name of figs[i]
find_original_lowest(figs, i, j) ==
    LET M == { k \in 1..j : figs[k].name = base_name(figs[i].name) }
    IN  IF M = {} THEN 0 ELSE CHOOSE k \in M : \A l \in M : k <= l

RECURSIVE find_original(_, _, _)
find_original(figs, i, j) ==
    IF j < 1 THEN 0
    ELSE IF figs[j].name = base_name(figs[i].name) THEN j
    ELSE find_original(figs, i, j - 1)

\* variant: the two captions joined without the blank
append_caption_no_blank(target, cont) == target \o cont

\* variant: the continuation caption replaces the caption of the original
append_caption_replaces(target, cont) == cont

\* figures[j].caption += ' ' + fig.caption
append_caption(target, cont) == target \o <<SP>> \o cont

\* variant: a continuation without an original is dropped as well
merge_iteration_drops_orphans(st, i) ==
    IF i \in st.skip THEN st
    ELSE
        LET fig == st.figs[i]
            j   == IF is_continuation(fig.caption)
                   THEN find_original(st.figs, i, i - 1) ELSE 0
        IN  IF j # 0
            THEN [figs |-> [st.figs EXCEPT ![j].caption =
                                append_caption(st.figs[j].caption, fig.caption)],
                  skip |-> st.skip \cup {i},
                  merged |-> st.merged]
            ELSE IF is_continuation(fig.caption)
            THEN [figs |-> st.figs, skip |-> st.skip \cup {i}, merged |-> st.merged]
            ELSE [figs |-> st.figs,
                  skip |-> st.skip,
                  merged |-> Append(st.merged, i)]

\* one iteration of `for i, fig in enumerate(figures)`
merge_iteration(st, i) ==
    IF i \in st.skip THEN st
    ELSE
        LET fig == st.figs[i]
            j   == IF is_continuation(fig.caption)
                   THEN find_original(st.figs, i, i - 1) ELSE 0
        IN  IF j # 0
            THEN [figs |-> [st.figs EXCEPT ![j].caption =
                                append_caption(st.figs[j].caption, fig.caption)],
                  skip |-> st.skip \cup {i},
                  merged |-> st.merged]
            ELSE [figs |-> st.figs,
                  skip |-> st.skip,
                  merged |-> Append(st.merged, i)]

\* the list the function returns: the objects merged refers to
merged_records == [k \in 1..Len(merged) |-> figures[merged[k]]]

\* the whole of _merge_multipage_elements on a list
RECURSIVE merge_loop(_, _)
merge_loop(st, i) ==
    IF i > Len(st.figs) THEN st ELSE merge_loop(merge_iteration(st, i), i + 1)

merge_multipage_elements(figs) ==
    LET st == merge_loop([figs |-> figs, skip |-> {}, merged |-> <<>>], 1)
    IN  [k \in 1..Len(st.merged) |-> st.figs[st.merged[k]]]

(***************************************************************************)
(* _extract_images, _extract_tables, _extract_vector_graphics              *)
(***************************************************************************)
\* `bbox.area() < 10000`: minimum area of an image or a drawing group
MIN_AREA == 10000
\* `pix.width < 100 or pix.height < 100`
MIN_PIXELS == 100
\* `len(group) < 5`
MIN_GROUP == 5
\* fitz.Matrix(2, 2)
ZOOM == 2
\* the search region of a table caption: 50 left, 200 right, 500 down
TABLE_LEFT == 50
TABLE_RIGHT == 200
TABLE_DOWN == 500
\* `abs(...) < 200` in _group_drawings
GROUP_MAX == 200

\* str(n) for the image numbers of a page
NumStr(n) ==
    CASE n = 1 -> "1" [] n = 2 -> "2" [] n = 3 -> "3" [] n = 4 -> "4" [] OTHER -> "n"

SetMin(S) == CHOOSE x \in S : \A y \in S : x <= y
SetMax(S) == CHOOSE x \in S : \A y \in S : x >= y

\* page.get_pixmap(matrix=mat, clip=clip) as a PNG data URI: what is rendered
\* ("table" region or "drawings" group), the clip in page coordinates, and
\* the zoom it is rendered with
render(bbox, of) == [via |-> "render", of |-> of, clip |-> bbox, zoom |-> ZOOM]

\* the type, caption and name an element gets from the caption found for it
captioned(pg, caps, c) ==
    [figure_type |-> caps[c].type,
     caption |-> extract_full_caption(pg, caps[c]),
     name |-> Strip(caps[c].match)]

\* variant: the area of the placement rectangle is not looked at
image_too_small_pixels_only(img, bbox) ==
    img.pix.width < MIN_PIXELS \/ img.pix.height < MIN_PIXELS

\* the two size tests of _extract_images
image_too_small(img, bbox) ==
    \/ area(bbox) < MIN_AREA
    \/ img.pix.width < MIN_PIXELS \/ img.pix.height < MIN_PIXELS

\* caption_info = self._find_nearest_caption(bbox, captions), as made by
\* _extract_images and _extract_vector_graphics
element_caption(bbox, caps) == find_nearest_caption(bbox, caps)

\* the record of image k when it is handled as an image without a caption
uncaptioned_image(pg, page_num, k) ==
    LET rect == pg.images[k].rects[1]
    IN  << [figure_type |-> "Figure", name |-> <<"Figure", SP, NumStr(k)>>,
            caption |-> <<>>, page |-> page_num,
            bbox |-> BoundingBox(rect.x1, rect.y1, rect.x2, rect.y2),
            image_data |-> [via |-> "pixmap", xref |-> pg.images[k].xref]] >>

\* variant: a caption belongs to the first image it was given to; a later
\* image with the same nearest caption is emitted without a caption
image_figure_caption_owned(pg, caps, page_num, k) ==
    LET img == pg.images[k]
        box(i) == pg.images[i].rects[1]
        c == IF img.rects = <<>> THEN 0 ELSE element_caption(box(k), caps)
        taken == \E i \in 1..(k - 1) :
                    /\ pg.images[i].rects # <<>>
                    /\ ~image_too_small(pg.images[i], box(i))
                    /\ element_caption(box(i), caps) = c
    IN  IF img.rects = <<>> \/ image_too_small(img, box(k)) THEN <<>>
        ELSE IF c = 0 \/ taken THEN uncaptioned_image(pg, page_num, k)
        ELSE LET info == captioned(pg, caps, c)
             IN  << [figure_type |-> info.figure_type, name |-> info.name,
                     caption |-> info.caption, page |-> page_num, bbox |-> box(k),
                     image_data |-> [via |-> "pixmap", xref |-> img.xref]] >>

\* variant: an image without a caption is dropped, as a drawing group is
image_figure_uncaptioned_skipped(pg, caps, page_num, k) ==
    LET img == pg.images[k]
        c == IF img.rects = <<>> THEN 0 ELSE element_caption(img.rects[1], caps)
    IN  IF img.rects = <<>> \/ image_too_small(img, img.rects[1]) \/ c = 0 THEN <<>>
        ELSE LET info == captioned(pg, caps, c)
             IN  << [figure_type |-> info.figure_type, name |-> info.name,
                     caption |-> info.caption, page |-> page_num,
                     bbox |-> img.rects[1],
                     image_data |-> [via |-> "pixmap", xref |-> img.xref]] >>

\* one iteration of `for img_index, img in enumerate(image_list)`; k = img_index + 1
image_figure(pg, caps, page_num, k) ==
    LET img == pg.images[k]
    IN  IF img.rects = <<>> THEN <<>>
        ELSE
          LET rect == img.rects[1]
              bbox == BoundingBox(rect.x1, rect.y1, rect.x2, rect.y2)
              c == element_caption(bbox, caps)
              info == IF c # 0 THEN captioned(pg, caps, c)
                      ELSE [figure_type |-> "Figure", caption |-> <<>>,
                            name |-> <<"Figure", SP, NumStr(k)>>]
          IN  IF image_too_small(img, bbox) THEN <<>>
              ELSE << [figure_type |-> info.figure_type, name |-> info.name,
                       caption |-> info.caption, page |-> page_num, bbox |-> bbox,
                       image_data |-> [via |-> "pixmap", xref |-> img.xref]] >>

RECURSIVE extract_images_from(_, _, _, _)
extract_images_from(pg, caps, page_num, k) ==
    IF k > Len(pg.images) THEN <<>>
    ELSE image_figure(pg, caps, page_num, k)
         \o extract_images_from(pg, caps, page_num, k + 1)

\* _extract_images(page, captions, page_num)
extract_images(pg, caps, page_num) == extract_images_from(pg, caps, page_num, 1)

\* _bbox_in_region
bbox_in_region(bbox, region) ==
    /\ bbox.x1 >= region.x1 /\ bbox.y1 >= region.y1
    /\ bbox.x2 <= region.x2 /\ bbox.y2 <= region.y2

\* one iteration of `for caption_info in table_captions`
table_figure(pg, caption_info, page_num) ==
    LET cb == caption_info.bbox
        search_bbox == BoundingBox(cb.x1 - TABLE_LEFT, cb.y2,
                                   cb.x2 + TABLE_RIGHT, cb.y2 + TABLE_DOWN)
        table_blocks == { b \in 1..Len(pg.blocks) :
                             /\ pg.blocks[b].type = 0
                             /\ bbox_in_region(pg.blocks[b].bbox, search_bbox) }
    IN  IF table_blocks = {} THEN <<>>
        ELSE
          LET min_x == SetMin({pg.blocks[b].bbox.x1 : b \in table_blocks})
              max_x == SetMax({pg.blocks[b].bbox.x2 : b \in table_blocks})
              max_y == SetMax({pg.blocks[b].bbox.y2 : b \in table_blocks})
              table_bbox == BoundingBox(min_x, cb.y1, max_x, max_y)
          IN  << [figure_type |-> "Table", name |-> Strip(caption_info.match),
                  caption |-> extract_full_caption(pg, caption_info),
                  page |-> page_num, bbox |-> table_bbox,
                  image_data |-> render(table_bbox, "table")] >>

RECURSIVE extract_tables_from(_, _, _, _)
extract_tables_from(pg, caps, page_num, k) ==
    IF k > Len(caps) THEN <<>>
    ELSE (IF caps[k].type = "Table" THEN table_figure(pg, caps[k], page_num) ELSE <<>>)
         \o extract_tables_from(pg, caps, page_num, k + 1)

\* _extract_tables(page, blocks, captions, page_num)
extract_tables(pg, caps, page_num) == extract_tables_from(pg, caps, page_num, 1)

NoRect == [none |-> TRUE]

\* variant: only the horizontal distance is looked at
close_enough_x_only(rect1, rect2) == Abs(rect1.x1 - rect2.x1) < GROUP_MAX

\* `abs(rect1.x0 - rect2.x0) < 200 and abs(rect1.y0 - rect2.y0) < 200`
close_enough(rect1, rect2) ==
    /\ Abs(rect1.x1 - rect2.x1) < GROUP_MAX
    /\ Abs(rect1.y1 - rect2.y1) < GROUP_MAX

\* variant: drawings already in a group are looked at again
group_members_used_again(drawings, i, used) ==
    { j \in 1..Len(drawings) :
        /\ j # i
        /\ drawings[j].rect # NoRect
        /\ close_enough(drawings[i].rect, drawings[j].rect) }

\* the inner loop of _group_drawings for the seed i: the indices j added
group_members(drawings, i, used) ==
    { j \in 1..Len(drawings) :
        /\ j \notin used /\ j # i
        /\ drawings[j].rect # NoRect
        /\ close_enough(drawings[i].rect, drawings[j].rect) }

\* _group_drawings from seed i on: the groups, each the sequence of the indices
\* of its drawings in the order they were appended
RECURSIVE group_from(_, _, _)
group_from(drawings, i, used) ==
    IF i > Len(drawings) THEN <<>>
    ELSE IF i \in used THEN group_from(drawings, i + 1, used)
    ELSE IF drawings[i].rect = NoRect
         THEN group_from(drawings, i + 1, used \cup {i})
    ELSE LET m == group_members(drawings, i, used \cup {i})
             rest[S \in SUBSET m] ==
                 IF S = {} THEN <<>>
                 ELSE <<SetMin(S)>> \o rest[S \ {SetMin(S)}]
         IN  << <<i>> \o rest[m] >>
             \o group_from(drawings, i + 1, used \cup {i} \cup m)

\* _group_drawings(drawings)
group_drawings(drawings) == group_from(drawings, 1, {})

\* variant: no group is too simple to be a figure
group_never_too_simple(group) == FALSE

\* `if len(group) < 5`
group_too_simple(group) == Len(group) < MIN_GROUP

\* one iteration of `for group in drawing_groups`
vector_figure(pg, caps, page_num, group) ==
    IF group_too_simple(group) THEN <<>>
    ELSE
      LET rects == { pg.drawings[group[k]].rect : k \in 1..Len(group) }
          bbox == BoundingBox(SetMin({r.x1 : r \in rects}), SetMin({r.y1 : r \in rects}),
                              SetMax({r.x2 : r \in rects}), SetMax({r.y2 : r \in rects}))
          c == element_caption(bbox, caps)
      IN  IF area(bbox) < MIN_AREA \/ c = 0 THEN <<>>
          ELSE LET info == captioned(pg, caps, c)
               IN  << [figure_type |-> info.figure_type, name |-> info.name,
                       caption |-> info.caption, page |-> page_num, bbox |-> bbox,
                       image_data |-> render(bbox, "drawings")] >>

RECURSIVE vector_figures_from(_, _, _, _)
vector_figures_from(pg, caps, page_num, groups) ==
    IF groups = <<>> THEN <<>>
    ELSE vector_figure(pg, caps, page_num, Head(groups))
         \o vector_figures_from(pg, caps, page_num, Tail(groups))

\* _extract_vector_graphics(page, captions, page_num)
extract_vector_graphics(pg, caps, page_num) ==
    IF pg.drawings = <<>> THEN <<>>
    ELSE vector_figures_from(pg, caps, page_num, group_drawings(pg.drawings))

\* variant: the box is written in the coordinates of the 2x rendering
output_bbox_scaled(bbox) ==
    [x1 |-> bbox.x1 * ZOOM, y1 |-> bbox.y1 * ZOOM,
     x2 |-> bbox.x2 * ZOOM, y2 |-> bbox.y2 * ZOOM,
     width |-> (bbox.x2 - bbox.x1) * ZOOM, height |-> (bbox.y2 - bbox.y1) * ZOOM]

\* the 'bbox' object of an output record
output_bbox(bbox) ==
    [x1 |-> bbox.x1, y1 |-> bbox.y1, x2 |-> bbox.x2, y2 |-> bbox.y2,
     width |-> bbox.x2 - bbox.x1, height |-> bbox.y2 - bbox.y1]

\* fig.figure_type.lower()
type_lower(t) == IF t = "Figure" THEN "figure" ELSE "table"

\* variant: the page index is written as it is, 0-based
output_record_page_index(fig) ==
    [type |-> type_lower(fig.figure_type), pageNumber |-> fig.page,
     name |-> fig.name, caption |-> fig.caption, bbox |-> output_bbox(fig.bbox),
     image |-> fig.image_data, source |-> "pdffigures2-python"]

\* the record appended to results['figures'] for one Figure
output_record(fig) ==
    [type |-> type_lower(fig.figure_type), pageNumber |-> fig.page + 1,
     name |-> fig.name, caption |-> fig.caption, bbox |-> output_bbox(fig.bbox),
     image |-> fig.image_data, source |-> "pdffigures2-python"]

\* Figure objects the page extraction can hand to the merge: a name taken from
\* a caption match with a caption that starts with the matched text, or an
\* uncaptioned image named 'Figure <n>' with an empty caption
MergeNames ==
    { <<"Table", SP, "3">>, <<"Figure", SP, "3">>,
      <<"Supplementary", SP, "Table">>,
      <<"Supplementary", SP, "Table", SP, "continued">> }

MergeSuffixes ==
    { <<>>, <<SP, "(continued)">>, <<SP, "(cont.)">>, <<SP, "Results">> }

TypeOfName(name) == IF name[1] = "Figure" THEN "Figure" ELSE "Table"

MergeRecords ==
    { [figure_type |-> TypeOfName(n), name |-> n, caption |-> n \o s]
        : n \in MergeNames, s \in MergeSuffixes }
    \cup { [figure_type |-> "Figure", name |-> <<"Figure", SP, "1">>, caption |-> <<>>] }

MergeInputs ==
    UNION { [1..n -> MergeRecords] : n \in 0..MaxFigs }

MergeIdle ==
    /\ figures = <<>>
    /\ figures0 = <<>>
    /\ merged = <<>>
    /\ skip_indices = {}
    /\ mi = 0
    /\ mpc = "idle"

MergeStart ==
    /\ figures \in MergeInputs
    /\ figures0 = figures
    /\ merged = <<>>
    /\ skip_indices = {}
    /\ mi = 1
    /\ mpc = "loop"

MergeIter ==
    /\ mpc = "loop"
    /\ mi <= Len(figures)
    /\ LET st == merge_iteration([figs |-> figures, skip |-> skip_indices,
                                  merged |-> merged], mi)
       IN  /\ figures' = st.figs
           /\ skip_indices' = st.skip
           /\ merged' = st.merged
    /\ mi' = mi + 1
    /\ UNCHANGED <<figures0, mpc>>
    /\ UNCHANGED <<nearestVars, extractVars, pymuVars, cliVars, fetchVars, groupVars, docVars, pfVars, pmdVars, sanVars, tabVars, clVars>>

MergeReturn ==
    /\ mpc = "loop"
    /\ mi > Len(figures)
    /\ mpc' = "done"
    /\ UNCHANGED <<figures, figures0, merged, skip_indices, mi>>
    /\ UNCHANGED <<nearestVars, extractVars, pymuVars, cliVars, fetchVars, groupVars, docVars, pfVars, pmdVars, sanVars, tabVars, clVars>>

(***************************************************************************)
(* _find_nearest_caption, one loop iteration per step                      *)
(***************************************************************************)
NearestIdle ==
    /\ figure_bbox = BoundingBox(0, 0, 0, 0)
    /\ captions = <<>>
    /\ nk = 0
    /\ best_caption = 0
    /\ best_distance = Infinity
    /\ npc = "idle"

NearestStart ==
    /\ figure_bbox \in NearestFigureBoxes
    /\ captions \in UNION { [1..n -> NearestCaptions] : n \in 0..MaxCaptions }
    /\ nk = 1
    /\ best_caption = 0
    /\ best_distance = Infinity
    /\ npc = "loop"

NearestIter ==
    /\ npc = "loop"
    /\ nk <= Len(captions)
    /\ LET st == nearest_iteration(figure_bbox, captions, nk,
                     [best_caption |-> best_caption, best_distance |-> best_distance])
       IN  /\ best_caption' = st.best_caption
           /\ best_distance' = st.best_distance
    /\ nk' = nk + 1
    /\ UNCHANGED <<figure_bbox, captions, npc>>
    /\ UNCHANGED <<mergeVars, extractVars, pymuVars, cliVars, fetchVars, groupVars, docVars, pfVars, pmdVars, sanVars, tabVars, clVars>>

NearestReturn ==
    /\ npc = "loop"
    /\ nk > Len(captions)
    /\ npc' = "done"
    /\ UNCHANGED <<figure_bbox, captions, nk, best_caption, best_distance>>
    /\ UNCHANGED <<mergeVars, extractVars, pymuVars, cliVars, fetchVars, groupVars, docVars, pfVars, pmdVars, sanVars, tabVars, clVars>>

(***************************************************************************)
(* PDFFigures2Python.extract on a one-page document, one call per step     *)
(***************************************************************************)
\* lines of text a page is made of (each its own text block, one span a line)
PageLines ==
    { [text |-> <<"Figure", SP, "7">>, bbox |-> BoundingBox(100, 310, 300, 320)],
      [text |-> <<"Table", SP, "7">>, bbox |-> BoundingBox(100, 80, 300, 90)],
      [text |-> <<"Table", SP, "7", SP, "(continued)">>,
       bbox |-> BoundingBox(100, 540, 300, 550)],
      [text |-> <<"Results", SP, "shows">>, bbox |-> BoundingBox(100, 325, 300, 335)],
      [text |-> <<"table", SP, "in">>, bbox |-> BoundingBox(100, 310, 300, 320)] }

\* embedded images: the placement rectangles of page.get_image_rects(xref) and
\* the pixel size of fitz.Pixmap(page.parent, xref)
PageImages ==
    { [rects |-> <<BoundingBox(100, 100, 300, 300)>>, pix |-> [width |-> 200, height |-> 200]],
      [rects |-> <<BoundingBox(100, 100, 150, 150)>>, pix |-> [width |-> 200, height |-> 200]],
      [rects |-> <<BoundingBox(100, 330, 300, 530)>>, pix |-> [width |-> 200, height |-> 200]],
      [rects |-> <<BoundingBox(100, 100, 300, 300)>>, pix |-> [width |-> 50, height |-> 50]],
      [rects |-> <<>>, pix |-> [width |-> 200, height |-> 200]] }

\* page.get_drawings(): n overlapping paths below the first image
PagePaths(n) ==
    [k \in 1..n |-> [rect |-> BoundingBox(100 + 10 * k, 330, 300, 530 - 10 * k)]]

\* n small paths on top of each other: their union has an area under 10000
SmallPaths(n) ==
    [k \in 1..n |-> [rect |-> BoundingBox(100 + k, 330, 150, 380 - k)]]

PageDrawings ==
    { PagePaths(n) : n \in {0, MaxPaths - 1, MaxPaths} } \cup { SmallPaths(MaxPaths) }

PageInputs ==
    { [blocks |-> [k \in 1..Len(ls) |-> [type |-> 0, bbox |-> ls[k].bbox,
                                         lines |-> <<ls[k]>>]],
       images |-> [k \in 1..Len(is) |-> [xref |-> k, rects |-> is[k].rects,
                                         pix |-> is[k].pix]],
       drawings |-> ds]
        : ls \in UNION { [1..m -> PageLines] : m \in 0..MaxLines },
          is \in UNION { [1..m -> PageImages] : m \in 0..MaxImages },
          ds \in PageDrawings }

ExtractIdle ==
    /\ page = [blocks |-> <<>>, images |-> <<>>, drawings |-> <<>>]
    /\ page_captions = <<>>
    /\ all_figures = <<>>
    /\ results = <<>>
    /\ xpc = "idle"

ExtractStart ==
    /\ page \in PageInputs
    /\ page_captions = <<>>
    /\ all_figures = <<>>
    /\ results = <<>>
    /\ xpc = "captions"

\* captions = self._find_captions(blocks)
FindCaptions ==
    /\ xpc = "captions"
    /\ page_captions' = find_captions(page.blocks)
    /\ xpc' = "images"
    /\ UNCHANGED <<page, all_figures, results>>
    /\ UNCHANGED <<mergeVars, nearestVars, pymuVars, cliVars, fetchVars, groupVars, docVars, pfVars, pmdVars, sanVars, tabVars, clVars>>

\* figures.extend(self._extract_images(page, captions, page_num))
ExtractImages ==
    /\ xpc = "images"
    /\ all_figures' = all_figures \o extract_images(page, page_captions, 0)
    /\ xpc' = "tables"
    /\ UNCHANGED <<page, page_captions, results>>
    /\ UNCHANGED <<mergeVars, nearestVars, pymuVars, cliVars, fetchVars, groupVars, docVars, pfVars, pmdVars, sanVars, tabVars, clVars>>

\* figures.extend(self._extract_tables(page, blocks, captions, page_num))
ExtractTables ==
    /\ xpc = "tables"
    /\ all_figures' = all_figures \o extract_tables(page, page_captions, 0)
    /\ xpc' = "vector"
    /\ UNCHANGED <<page, page_captions, results>>
    /\ UNCHANGED <<mergeVars, nearestVars, pymuVars, cliVars, fetchVars, groupVars, docVars, pfVars, pmdVars, sanVars, tabVars, clVars>>

\* figures.extend(self._extract_vector_graphics(page, captions, page_num))
ExtractVector ==
    /\ xpc = "vector"
    /\ all_figures' = all_figures \o extract_vector_graphics(page, page_captions, 0)
    /\ xpc' = "merge"
    /\ UNCHANGED <<page, page_captions, results>>
    /\ UNCHANGED <<mergeVars, nearestVars, pymuVars, cliVars, fetchVars, groupVars, docVars, pfVars, pmdVars, sanVars, tabVars, clVars>>

\* all_figures = self._merge_multipage_elements(all_figures)
ExtractMerge ==
    /\ xpc = "merge"
    /\ all_figures' = merge_multipage_elements(all_figures)
    /\ xpc' = "convert"
    /\ UNCHANGED <<page, page_captions, results>>
    /\ UNCHANGED <<mergeVars, nearestVars, pymuVars, cliVars, fetchVars, groupVars, docVars, pfVars, pmdVars, sanVars, tabVars, clVars>>

\* for fig in all_figures: results['figures'].append({...})
ExtractConvert ==
    /\ xpc = "convert"
    /\ results' = [k \in 1..Len(all_figures) |-> output_record(all_figures[k])]
    /\ xpc' = "done"
    /\ UNCHANGED <<page, page_captions, all_figures>>
    /\ UNCHANGED <<mergeVars, nearestVars, pymuVars, cliVars, fetchVars, groupVars, docVars, pfVars, pmdVars, sanVars, tabVars, clVars>>

(***************************************************************************)
(* PyMuPDFExtractor (pymupdf-extractor.py)                                 *)
(***************************************************************************)
NL == "\n"
\* `abs(img_rect.y1 - table_match['y']) < 50`
PM_NEAR == 50
\* `pix.width < 100`, `rect.width < 100`
PM_MIN_SIZE == 100
\* `len(drawing['items']) > 10`
PM_MIN_ITEMS == 10

\* the text \d+ resp. [IVX]+ matches at the start of a token, "" for no match
pm_number(tok, roman) ==
    IF roman
    THEN (CASE tok \in {"IV", "X"} -> tok [] tok = "In" -> "I" [] OTHER -> "")
    ELSE (CASE tok \in {"1", "3", "7"} -> tok
            [] tok \in {"7.", "7a"} -> "7"
            [] OTHER -> "")

\* the keyword patterns: the leading word, and the kind of number that follows
\* ("none": the second word is fixed instead)
TablePatterns ==
    << [word |-> "Table", num |-> "digits"], [word |-> "TABLE", num |-> "digits"],
       [word |-> "Table", num |-> "roman"], [word |-> "TABLE", num |-> "roman"],
       [word |-> "Supplementary", num |-> "none", second |-> "Table"],
       [word |-> "Appendix", num |-> "none", second |-> "Table"] >>

FigurePatterns ==
    << [word |-> "Figure", num |-> "digits"], [word |-> "FIGURE", num |-> "digits"],
       [word |-> "Fig.", num |-> "digits"],
       [word |-> "Figure", num |-> "roman"], [word |-> "FIGURE", num |-> "roman"],
       [word |-> "Supplementary", num |-> "none", second |-> "Figure"],
       [word |-> "Appendix", num |-> "none", second |-> "Figure"],
       [word |-> "Diagram", num |-> "digits"], [word |-> "Chart", num |-> "digits"],
       [word |-> "Graph", num |-> "digits"] >>

\* \d+ resp. [IVX]+ from token p on, token p starting such a number: a token
\* taken whole is continued by a next token that follows it without a blank
RECURSIVE pm_number_run(_, _, _)
pm_number_run(text, p, roman) ==
    LET m == pm_number(text[p], roman)
    IN  IF m # text[p] \/ p + 1 > Len(text) THEN <<m>>
        ELSE IF pm_number(text[p + 1], roman) = "" THEN <<m>>
        ELSE <<m>> \o pm_number_run(text, p + 1, roman)

\* \b before token i: the start of the text, a blank, or a token that ends in
\* a character that belongs to no word
pm_word_boundary(text, i) ==
    IF i = 1 THEN TRUE
    ELSE IsBlank(text[i - 1])
         \/ text[i - 1] \in {"7.", "Fig.", "FIG.", "Tbl.", "TBL.", "(continued)",
                              "(Continued)", "Cont.", "cont.", "(cont.)", "(cont'd)"}

\* match.group() of pattern pat at token i of text, <<>> when it does not match
\* (\s+ takes a run of whitespace; the blank of 'Supplementary Table' is one
\* blank exactly, and the second word may go on: 'Supplementary Tables')
pm_match_at(text, i, pat) ==
    LET p == i + 1 + blank_run(text, i + 1)
    IN  IF i + 2 > Len(text) THEN <<>>
        ELSE IF text[i] # pat.word \/ ~pm_word_boundary(text, i) THEN <<>>
        ELSE IF pat.num = "none"
             THEN (IF text[i + 1] = SP
                      /\ text[i + 2] \in {pat.second, pat.second \o "s"}
                   THEN SubSeq(text, i, i + 1) \o <<pat.second>> ELSE <<>>)
        ELSE IF p = i + 1 \/ p > Len(text) THEN <<>>
        ELSE IF pm_number(text[p], pat.num = "roman") = "" THEN <<>>
        ELSE SubSeq(text, i, p - 1) \o pm_number_run(text, p, pat.num = "roman")

\* re.finditer(pattern, text) from token i on
RECURSIVE pm_finditer(_, _, _, _)
pm_finditer(text, i, pat, element_type) ==
    IF i > Len(text) THEN <<>>
    ELSE (IF pm_match_at(text, i, pat) # <<>>
          THEN << [text |-> pm_match_at(text, i, pat), type |-> element_type, y |-> 0] >>
          ELSE <<>>)
         \o pm_finditer(text, i + 1, pat, element_type)

\* find_elements(text, patterns, element_type)
RECURSIVE find_elements(_, _, _)
find_elements(text, patterns, element_type) ==
    IF patterns = <<>> THEN <<>>
    ELSE pm_finditer(text, 1, Head(patterns), element_type)
         \o find_elements(text, Tail(patterns), element_type)

\* the first match within 50 units of the bottom edge of the image; 0 for none
RECURSIVE pm_first_near(_, _, _)
pm_first_near(img_rect, found, k) ==
    IF k > Len(found) THEN 0
    ELSE IF Abs(img_rect.y2 - found[k].y) < PM_NEAR THEN k
    ELSE pm_first_near(img_rect, found, k + 1)

\* str.title() of the element type
pm_title(t) == IF t = "table" THEN "Table" ELSE "Figure"

\* fitz.Rect.width and fitz.Rect.height
rect_width(r) == IF r.x2 - r.x1 < 0 THEN 0 ELSE r.x2 - r.x1
rect_height(r) == IF r.y2 - r.y1 < 0 THEN 0 ELSE r.y2 - r.y1

\* the 'bbox' object of an output record
pm_bbox(r, w, h) ==
    [x1 |-> r.x1, y1 |-> r.y1, x2 |-> r.x2, y2 |-> r.y2, width |-> w, height |-> h]

\* the body of `for img_index, img in enumerate(image_list)`: the records added
pm_image_records(pg, page_num, k) ==
    LET img == pg.images[k]
        img_rect == img.bbox
        tables_found == find_elements(pg.text, TablePatterns, "table")
        figures_found == find_elements(pg.text, FigurePatterns, "figure")
        t == pm_first_near(img_rect, tables_found, 1)
        f == pm_first_near(img_rect, figures_found, 1)
        element_type == IF t # 0 THEN "table" ELSE "figure"
        caption == IF t # 0 THEN tables_found[t].text
                   ELSE IF f # 0 THEN figures_found[f].text ELSE <<>>
    IN  IF img.pix.width < PM_MIN_SIZE \/ img.pix.height < PM_MIN_SIZE THEN <<>>
        ELSE << [type |-> element_type, pageNumber |-> page_num + 1,
                 caption |-> IF caption # <<>> THEN caption
                             ELSE <<pm_title(element_type), SP, "on", SP, "page", SP,
                                    NumStr(page_num + 1)>>,
                 bbox |-> pm_bbox(img_rect, img_rect.x2 - img_rect.x1,
                                  img_rect.y2 - img_rect.y1),
                 image |-> [via |-> "pixmap", xref |-> img.xref],
                 source |-> "pymupdf"] >>

\* the body of `for drawing in drawings`: the records added
pm_drawing_records(pg, page_num, k) ==
    LET drawing == pg.drawings[k]
        rect == IF drawing.rect = NoRect THEN pg.rect ELSE drawing.rect
        clip == BoundingBox(rect.x1 * 2, rect.y1 * 2, rect.x2 * 2, rect.y2 * 2)
    IN  IF ~(drawing.items > PM_MIN_ITEMS) THEN <<>>
        ELSE IF rect_width(rect) < PM_MIN_SIZE \/ rect_height(rect) < PM_MIN_SIZE THEN <<>>
        ELSE << [type |-> "figure", pageNumber |-> page_num + 1,
                 caption |-> <<"Diagram/Chart", SP, "on", SP, "page", SP,
                               NumStr(page_num + 1)>>,
                 bbox |-> pm_bbox(rect, rect_width(rect), rect_height(rect)),
                 image |-> [via |-> "crop", clip |-> clip],
                 source |-> "pymupdf_drawing"] >>

PmTexts ==
    { <<>>, <<"Table", SP, "7">>, <<"Figure", SP, "7.">>, <<"TABLE", SP, "IV">>,
      <<"Table", SP, "7", NL, "Figure", SP, "7">>,
      <<"Supplementary", SP, "Figure", SP, "3">> }

PmImages ==
    { [pix |-> [width |-> 200, height |-> 200], bbox |-> BoundingBox(100, 100, 300, 300)],
      [pix |-> [width |-> 200, height |-> 200], bbox |-> BoundingBox(100, 0, 300, 40)],
      [pix |-> [width |-> 200, height |-> 200], bbox |-> BoundingBox(100, 100, 150, 150)],
      [pix |-> [width |-> 50, height |-> 200], bbox |-> BoundingBox(100, 100, 300, 300)] }

PmDrawings ==
    { [items |-> 11, rect |-> BoundingBox(50, 50, 250, 250)],
      [items |-> 11, rect |-> BoundingBox(50, 50, 100, 250)],
      [items |-> 10, rect |-> BoundingBox(50, 50, 250, 250)],
      [items |-> 11, rect |-> NoRect] }

\* where the first line of the page's text stands on the page, and the
\* distance from one line to the next; page.get_text() does not tell
PmTextYs == {310, 700}
PmLineGap == 12

PmPages ==
    { [text |-> t, text_y |-> ty, rect |-> BoundingBox(0, 0, 600, 800),
       images |-> [k \in 1..Len(is) |-> [xref |-> k, pix |-> is[k].pix,
                                         bbox |-> is[k].bbox]],
       drawings |-> ds]
        : t \in PmTexts, ty \in PmTextYs,
          is \in UNION { [1..m -> PmImages] : m \in 0..MaxPmImages },
          ds \in UNION { [1..m -> PmDrawings] : m \in 0..MaxPmDrawings } }

PmIdle ==
    /\ pm_page = [text |-> <<>>, text_y |-> 0, rect |-> BoundingBox(0, 0, 0, 0),
                  images |-> <<>>, drawings |-> <<>>]
    /\ pm_results = <<>>
    /\ pm_i = 0
    /\ pm_pc = "idle"

PmStart ==
    /\ pm_page \in PmPages
    /\ pm_results = <<>>
    /\ pm_i = 1
    /\ pm_pc = "images"

\* one iteration of the image loop
PmImage ==
    /\ pm_pc = "images"
    /\ pm_i <= Len(pm_page.images)
    /\ pm_results' = pm_results \o pm_image_records(pm_page, 0, pm_i)
    /\ pm_i' = pm_i + 1
    /\ UNCHANGED <<pm_page, pm_pc>>
    /\ UNCHANGED <<mergeVars, nearestVars, extractVars, cliVars, fetchVars,
                 groupVars, docVars, pfVars, pmdVars, sanVars, tabVars, clVars>>

\* drawings = page.get_drawings()
PmGetDrawings ==
    /\ pm_pc = "images"
    /\ pm_i > Len(pm_page.images)
    /\ pm_pc' = IF pm_page.drawings # <<>> THEN "drawings" ELSE "done"
    /\ pm_i' = 1
    /\ UNCHANGED <<pm_page, pm_results>>
    /\ UNCHANGED <<mergeVars, nearestVars, extractVars, cliVars, fetchVars,
                 groupVars, docVars, pfVars, pmdVars, sanVars, tabVars, clVars>>

\* one iteration of the drawing loop
PmDrawing ==
    /\ pm_pc = "drawings"
    /\ pm_i <= Len(pm_page.drawings)
    /\ pm_results' = pm_results \o pm_drawing_records(pm_page, 0, pm_i)
    /\ pm_i' = pm_i + 1
    /\ UNCHANGED <<pm_page, pm_pc>>
    /\ UNCHANGED <<mergeVars, nearestVars, extractVars, cliVars, fetchVars,
                 groupVars, docVars, pfVars, pmdVars, sanVars, tabVars, clVars>>

\* the end of the page: doc.close() and return results
PmReturn ==
    /\ pm_pc = "drawings"
    /\ pm_i > Len(pm_page.drawings)
    /\ pm_pc' = "done"
    /\ UNCHANGED <<pm_page, pm_results, pm_i>>
    /\ UNCHANGED <<mergeVars, nearestVars, extractVars, cliVars, fetchVars,
                 groupVars, docVars, pfVars, pmdVars, sanVars, tabVars, clVars>>

(***************************************************************************)
(* The command-line entry points                                           *)
(***************************************************************************)
\* the argparse extractors and the two PDF helper scripts
ExtractorScripts ==
    { "pdffigures2-python", "pymupdf-extractor", "chandra-extractor",
      "pdffigures2-extractor", "pdf-metadata-extractor", "pdf-thumbnail-generator" }

\* document generators whose main reports with a 'success' key:
\* {'success': False, 'error': ...} and sys.exit(1) on a missing argument and
\* in `except Exception as e`
ReportingGenerators ==
    { "comprehensive_pdf_generator", "educational_word_generator",
      "educational_word_generator_before_numbering_fix",
      "educational_word_generator_enhanced", "educational_word_generator_harrison",
      "educational_word_generator_old", "educational_word_generator_perfect",
      "educational_word_generator_v2", "fixed_numbering_formatter",
      "gamma_markdown_generator", "gamma_word_generator", "readable_formatter" }

\* document generators whose main reports {"error": ...}, without 'success'
ErrorOnlyGenerators ==
    { "educational_word_generator_book", "educational_word_generator_clean",
      "educational_word_generator_final" }

\* document generators whose main has no exception handler; without
\* arguments they build a test document (professional_book_formatter reads
\* no argument at all)
UnguardedGenerators ==
    { "educational_word_generator_broken", "enhanced_book_generator",
      "professional_book_formatter" }

\* the scripts with a command-line entry point (the fetcher and the text
\* sanitizer have their own machines below)
Scripts ==
    ExtractorScripts \cup ReportingGenerators \cup ErrorOnlyGenerators
    \cup UnguardedGenerators

\* scripts that parse their arguments with argparse (a missing argument ends
\* the process with code 2 and a usage text on standard error; -h and --help
\* end it with code 0 and the help text on standard output)
ArgparseScripts ==
    { "pdffigures2-python", "pymupdf-extractor", "chandra-extractor",
      "pdffigures2-extractor" }

\* scripts whose operation runs an external program
SubprocessScripts == { "chandra-extractor", "pdffigures2-extractor" }

ExceptionMessages == { "no such file: in.pdf", "cannot open broken document" }

\* a line of standard output that is plain text, no JSON object
TextLine(line) == [success |-> "no json", error |-> <<line>>]

\* educational_word_generator_final, process_content_intelligently: the
\* [TABLE DEBUG] lines printed for one section with content
SectionDebugLines ==
    LET processing == TextLine("[TABLE DEBUG] Processing section")
        has_stats == TextLine("[TABLE DEBUG] Section has statistics indicators")
        timeline == TextLine("[TABLE DEBUG] Creating timeline table")
        statistics == TextLine("[TABLE DEBUG] Creating statistics table")
        no_table == TextLine("[TABLE DEBUG] No table data parsed from statistics")
    IN  { <<processing>>, <<processing, timeline>>, <<processing, statistics>>,
          <<processing, no_table>>, <<processing, has_stats, timeline>>,
          <<processing, has_stats, statistics>>, <<processing, has_stats, no_table>> }

\* `except Exception as e: print(f"Error adding image: {e}")` around a figure
\* whose imageBase64 cannot be decoded: the figure is passed over
ImageErrorLines == { <<>>, << TextLine("Error adding image") >> }

\* the text lines the operation itself prints on standard output, by script
\* and by how the operation ends: one section at most and one figure at most
OperationLines(sc, kind) ==
    CASE sc \in {"educational_word_generator_book", "educational_word_generator_clean"} ->
            ImageErrorLines
      [] sc = "educational_word_generator_final" ->
            { d \o i : d \in {<<>>} \cup SectionDebugLines, i \in ImageErrorLines }
      [] sc = "enhanced_book_generator" ->
            \* generate_from_appraisal, after self.doc.save(output_path)
            IF kind = "ok" THEN { << TextLine("Enhanced document saved") >> } ELSE { <<>> }
      [] sc = "professional_book_formatter" ->
            \* save_document, after self.doc.save(filename)
            IF kind = "ok" THEN { << TextLine("Professional document saved") >> }
            ELSE { <<>> }
      [] OTHER -> { <<>> }

\* how the top-level operation can end, without the lines it prints: it
\* succeeds, raises an exception, and for the scripts that run an external
\* program: non-zero exit, no output, timeout. In pdffigures2-extractor an
\* exception is raised either inside the try of extract ("raise") or before
\* it, by the constructor ("raise_init").
Endings(sc) ==
    { [kind |-> "ok", msg |-> ""] }
    \cup { [kind |-> "raise", msg |-> m] : m \in ExceptionMessages }
    \cup (IF sc \in SubprocessScripts
          THEN { [kind |-> k, msg |-> "stderr text"] : k \in {"nonzero", "no_output"} }
               \cup { [kind |-> "timeout", msg |-> ""] }
          ELSE {})
    \cup (IF sc = "pdffigures2-extractor"
          THEN { [kind |-> "raise_init", msg |-> "PDFFigures2 JAR not found"] }
          ELSE {})

\* what the top-level operation can do: how it ends and the text lines it
\* prints on standard output on the way
Outcomes(sc) ==
    UNION { { [kind |-> e.kind, msg |-> e.msg, lines |-> l]
                : l \in OperationLines(sc, e.kind) } : e \in Endings(sc) }

NoResult == [success |-> "absent", error |-> <<>>]
Ok == [success |-> "true", error |-> <<>>]
Failed(err) == [success |-> "false", error |-> err]
\* a JSON object with an 'error' key and no 'success' key
ErrorOnly(err) == [success |-> "absent", error |-> err]
\* argparse.ArgumentParser.parse_args on a missing argument: sys.exit(2)
ARGPARSE_EXIT == 2

\* what the operation hands back to the entry point, by script; NoResult
\* when an exception leaves the operation
operation_result(sc, out) ==
    CASE sc \in {"pdffigures2-python", "pymupdf-extractor"} ->
            \* extract(): except Exception as e: success False, error str(e)
            IF out.kind = "ok" THEN Ok ELSE Failed(<<out.msg>>)
      [] sc = "chandra-extractor" ->
            \* extract_pdf_content()
            CASE out.kind = "ok" -> Ok
              [] out.kind = "nonzero" -> Failed(<<"Chandra failed: ", out.msg>>)
              [] out.kind = "no_output" -> Failed(<<"No markdown output generated">>)
              [] out.kind = "timeout" -> Failed(<<"Chandra OCR timed out after 20 minutes">>)
              [] OTHER -> Failed(<<"Unexpected error: ", out.msg>>)
      [] sc = "pdffigures2-extractor" ->
            \* PDFFigures2Extractor.extract(): `except Exception as e` returns
            \* the message; the constructor's FileNotFoundError is raised
            \* before extract() is called
            CASE out.kind = "ok" -> Ok
              [] out.kind = "nonzero" -> Failed(<<"PDFFigures2 failed: ", out.msg>>)
              [] out.kind = "no_output" -> Failed(<<"No output generated">>)
              [] out.kind = "timeout" -> Failed(<<"PDFFigures2 extraction timeout">>)
              [] out.kind = "raise" -> Failed(<<out.msg>>)
              [] OTHER -> NoResult
      [] sc = "pdf-metadata-extractor" ->
            \* extract_metadata(): the error dictionary has no 'success' key
            IF out.kind = "ok" THEN [success |-> "absent", error |-> <<>>]
            ELSE ErrorOnly(<<out.msg>>)
      [] sc = "pdf-thumbnail-generator" ->
            \* generate_thumbnail() returns True / False
            IF out.kind = "ok" THEN Ok ELSE Failed(<<>>)
      [] sc \in ErrorOnlyGenerators ->
            \* the try block of main: except Exception as e: {"error": str(e)}
            IF out.kind = "ok" THEN Ok ELSE ErrorOnly(<<out.msg>>)
      [] sc \in UnguardedGenerators ->
            \* main has no try: the exception leaves main
            IF out.kind = "ok" THEN Ok ELSE NoResult
      [] OTHER ->
            \* ReportingGenerators: the try block of main
            IF out.kind = "ok" THEN Ok ELSE Failed(<<out.msg>>)

\* what the operation prints on standard output while it runs
operation_prints(sc, out) == out.lines

\* what main itself prints on standard output after the operation, for its
\* result; the main of pdffigures2-extractor prints the message of the
\* exception it caught; an exception that leaves main goes to standard error
main_prints(sc, res, tofile, out) ==
    CASE sc = "pdf-thumbnail-generator" -> <<>>
      [] sc = "chandra-extractor" /\ tofile -> <<>>
      [] sc = "pdffigures2-extractor" /\ res = NoResult -> << Failed(<<out.msg>>) >>
      [] sc \in UnguardedGenerators /\ res = NoResult -> <<>>
      [] sc \in {"enhanced_book_generator", "professional_book_formatter"} -> <<>>
      [] OTHER -> <<res>>

\* enhanced_book_generator without arguments: the line printed after the
\* test document was built
test_mode_line(sc, argsok, res) ==
    IF sc = "enhanced_book_generator" /\ ~argsok /\ res # NoResult
    THEN << TextLine("Test document created") >>
    ELSE <<>>

\* everything on standard output from the start of the operation to the end
\* of main
printed(sc, argsok, res, tofile, out) ==
    operation_prints(sc, out) \o main_prints(sc, res, tofile, out)
    \o test_mode_line(sc, argsok, res)

\* the exit code the entry point ends with for the result; write_failed: the
\* write of the --output file raised (chandra-extractor, outside any handler)
exit_code_of(sc, res, write_failed) ==
    CASE sc = "chandra-extractor" -> IF write_failed THEN 1 ELSE 0
      [] sc \in {"pdffigures2-python", "pymupdf-extractor",
                 "pdf-metadata-extractor"} -> 0
      [] sc = "pdffigures2-extractor" -> IF res = NoResult THEN 1 ELSE 0
      [] sc \in UnguardedGenerators -> IF res = NoResult THEN 1 ELSE 0
      [] OTHER -> IF res.success = "true" THEN 0 ELSE 1

\* the usage message a document generator prints when an argument is missing
usage_text(sc) ==
    CASE sc = "gamma_markdown_generator" -> <<"Usage: script.py input.json output.md">>
      [] sc \in {"educational_word_generator", "educational_word_generator_v2",
                 "educational_word_generator_before_numbering_fix",
                 "fixed_numbering_formatter", "readable_formatter"} ->
            <<"Usage: script.py input.json output.docx">>
      [] sc = "comprehensive_pdf_generator" ->
            <<"Usage: python ", sc, ".py <input_json> <output_pdf>">>
      [] sc = "educational_word_generator_old" ->
            <<"Usage: python ", "educational_word_generator", ".py <input_json> <output_docx>">>
      [] OTHER -> <<"Usage: python ", sc, ".py <input_json> <output_docx>">>

CliIdle ==
    /\ script = "none"
    /\ args_ok = FALSE
    /\ help_asked = FALSE
    /\ to_file = FALSE
    /\ write_ok = TRUE
    /\ outcome = [kind |-> "ok", msg |-> "", lines |-> <<>>]
    /\ op_result = NoResult
    /\ stdout = <<>>
    /\ exit_code = -1
    /\ cpc = "idle"

CliStart ==
    /\ script \in Scripts
    /\ args_ok \in BOOLEAN
    /\ help_asked \in (IF script \in ArgparseScripts THEN BOOLEAN ELSE {FALSE})
    /\ to_file \in (IF script = "chandra-extractor" THEN BOOLEAN ELSE {FALSE})
    /\ write_ok \in (IF to_file THEN BOOLEAN ELSE {TRUE})
    /\ outcome \in Outcomes(script)
    /\ op_result = NoResult
    /\ stdout = <<>>
    /\ exit_code = -1
    /\ cpc = "args"

\* the argument check at the start of the entry point; parser.parse_args()
\* on -h / --help prints the help text on standard output and ends the
\* process with code 0, whether or not the required arguments are there
CliCheckArgs ==
    /\ cpc = "args"
    /\ IF script \in ArgparseScripts /\ help_asked
       THEN /\ cpc' = "exit"
            /\ stdout' = << TextLine("usage: " \o script \o ".py [-h]") >>
            /\ exit_code' = 0
       ELSE IF args_ok \/ script \in UnguardedGenerators
       THEN /\ cpc' = "run"
            /\ stdout' =
                 (IF script = "enhanced_book_generator" /\ ~args_ok
                  THEN << TextLine("Usage: python enhanced_book_generator.py") >>
                  ELSE stdout)
            /\ UNCHANGED exit_code
       ELSE /\ cpc' = "exit"
            /\ stdout' =
                 (CASE script = "pdf-metadata-extractor" ->
                          << ErrorOnly(<<"No PDF path provided">>) >>
                    [] script \in ErrorOnlyGenerators ->
                          << ErrorOnly(usage_text(script)) >>
                    [] script \in ReportingGenerators ->
                          << Failed(usage_text(script)) >>
                    [] OTHER -> <<>>)
            /\ exit_code' = IF script \in ArgparseScripts THEN ARGPARSE_EXIT ELSE 1
    /\ UNCHANGED <<script, args_ok, help_asked, to_file, write_ok, outcome, op_result>>
    /\ UNCHANGED <<mergeVars, nearestVars, extractVars, pymuVars, fetchVars,
                 groupVars, docVars, pfVars, pmdVars, sanVars, tabVars, clVars>>

\* the top-level operation, with the exception handler around it where the
\* script has one
CliRun ==
    /\ cpc = "run"
    /\ op_result' = operation_result(script, outcome)
    /\ stdout' = stdout \o operation_prints(script, outcome)
    /\ cpc' = "report"
    /\ UNCHANGED <<script, args_ok, help_asked, to_file, write_ok, outcome, exit_code>>
    /\ UNCHANGED <<mergeVars, nearestVars, extractVars, pymuVars, fetchVars,
                 groupVars, docVars, pfVars, pmdVars, sanVars, tabVars, clVars>>

\* the result is printed or written and the process ends
CliReport ==
    /\ cpc = "report"
    /\ stdout' = stdout \o main_prints(script, op_result, to_file, outcome)
                        \o test_mode_line(script, args_ok, op_result)
    /\ exit_code' = exit_code_of(script, op_result, to_file /\ ~write_ok)
    /\ cpc' = "exit"
    /\ UNCHANGED <<script, args_ok, help_asked, to_file, write_ok, outcome, op_result>>
    /\ UNCHANGED <<mergeVars, nearestVars, extractVars, pymuVars, fetchVars,
                 groupVars, docVars, pfVars, pmdVars, sanVars, tabVars, clVars>>

(***************************************************************************)
(* pdf-fetcher-python-fallback.py: main                                    *)
(***************************************************************************)
\* the `sources` list of main, in order
sources ==
    << "Unpaywall", "LibKey Resolver", "PubMed Central", "PMC Direct API",
       "Europe PMC", "bioRxiv/medRxiv", "DOI.org redirect", "PMC HTML Full Text",
       "Universal Journal HTML" >>

\* what a call fetch_func(doi) can do: return None, return a dictionary whose
\* 'success' is false, return a successful result, raise an exception
FetchOutcomes == { "none", "unsuccessful", "success", "raise" }

\* variant: a successful result does not end the run
fetch_succeeded_ignored(out) == FALSE

\* variant: `if result`, any dictionary returned counts as a success
fetch_succeeded_any_result(out) == out \in {"success", "unsuccessful"}

\* `if result and result.get('success')`, not reached when the call raised
fetch_succeeded(out) == out = "success"

\* variant: an exception raised by a source is not caught and ends the run
fetch_goes_on_unless_raised(out) == out \in {"none", "unsuccessful"}

\* the loop goes on to the next source: the condition was false, or
\* `except Exception: continue`
fetch_goes_on(out) == ~fetch_succeeded(out)

FetchIdle ==
    /\ has_doi = FALSE
    /\ fk = 0
    /\ attempts = <<>>
    /\ f_stdout = <<>>
    /\ f_exit = -1
    /\ fpc = "idle"

FetchStart ==
    /\ has_doi \in BOOLEAN
    /\ fk = 1
    /\ attempts = <<>>
    /\ f_stdout = <<>>
    /\ f_exit = -1
    /\ fpc = "args"

\* if len(sys.argv) < 2: print the error and sys.exit(1)
FetchCheckArgs ==
    /\ fpc = "args"
    /\ IF has_doi
       THEN /\ fpc' = "loop"
            /\ UNCHANGED <<f_stdout, f_exit>>
       ELSE /\ f_stdout' = << [success |-> "false", error |-> "No DOI provided",
                               pdf_base64 |-> FALSE] >>
            /\ f_exit' = 1
            /\ fpc' = "exit"
    /\ UNCHANGED <<has_doi, fk, attempts>>
    /\ UNCHANGED <<mergeVars, nearestVars, extractVars, pymuVars, cliVars, groupVars, docVars, pfVars, pmdVars, sanVars, tabVars, clVars>>

\* one iteration of the loop over the sources: the call and what follows it
FetchTry ==
    /\ fpc = "loop"
    /\ fk <= Len(sources)
    /\ \E out \in FetchOutcomes :
          /\ attempts' = Append(attempts, [source |-> sources[fk], outcome |-> out])
          /\ IF fetch_succeeded(out)
             THEN /\ f_stdout' = Append(f_stdout,
                        [success |-> "true", error |-> "", pdf_base64 |-> TRUE])
                  /\ f_exit' = 0
                  /\ fpc' = "exit"
                  /\ fk' = fk
             ELSE IF fetch_goes_on(out)
             THEN /\ fk' = fk + 1
                  /\ UNCHANGED <<f_stdout, f_exit, fpc>>
             ELSE \* an exception leaves main (traceback, exit code 1); not
                  \* reached, `except Exception` catches what a source raises
                  /\ f_exit' = 1
                  /\ fpc' = "exit"
                  /\ UNCHANGED <<f_stdout, fk>>
    /\ UNCHANGED has_doi
    /\ UNCHANGED <<mergeVars, nearestVars, extractVars, pymuVars, cliVars, groupVars, docVars, pfVars, pmdVars, sanVars, tabVars, clVars>>

\* after the loop: all sources failed
FetchAllFailed ==
    /\ fpc = "loop"
    /\ fk > Len(sources)
    /\ f_stdout' = Append(f_stdout,
           [success |-> "false", error |-> "All Python fallback sources failed",
            pdf_base64 |-> FALSE])
    /\ f_exit' = 1
    /\ fpc' = "exit"
    /\ UNCHANGED <<has_doi, fk, attempts>>
    /\ UNCHANGED <<mergeVars, nearestVars, extractVars, pymuVars, cliVars, groupVars, docVars, pfVars, pmdVars, sanVars, tabVars, clVars>>

(***************************************************************************)
(* _group_drawings as one call                                             *)
(***************************************************************************)
\* rectangles of the paths handed to _group_drawings: three in a row 190 apart,
\* one exactly 200 below the second, and a path without a rectangle
GroupRects ==
    { BoundingBox(10, 330, 60, 380), BoundingBox(200, 330, 250, 380),
      BoundingBox(390, 330, 440, 380), BoundingBox(200, 530, 250, 580) }

GroupInputs ==
    UNION { [1..n -> { [rect |-> r] : r \in GroupRects \cup {NoRect} }]
              : n \in 0..MaxGroupPaths }

GroupIdle ==
    /\ g_drawings = <<>>
    /\ g_groups = <<>>
    /\ gpc = "idle"

GroupStart ==
    /\ g_drawings \in GroupInputs
    /\ g_groups = <<>>
    /\ gpc = "call"

\* drawing_groups = self._group_drawings(drawings)
GroupCall ==
    /\ gpc = "call"
    /\ g_groups' = group_drawings(g_drawings)
    /\ gpc' = "done"
    /\ UNCHANGED g_drawings
    /\ UNCHANGED <<mergeVars, nearestVars, extractVars, pymuVars, cliVars, fetchVars,
                   docVars, pfVars, pmdVars, sanVars, tabVars, clVars>>

(***************************************************************************)
(* PDFFigures2Python.extract on a document of several pages                *)
(***************************************************************************)
\* the value None of results['error']; a message m is the sequence <<m>>
None == <<>>

\* _extract_from_page(doc, page_num)
extract_from_page(pg, pnum) ==
    LET caps == find_captions(pg.blocks)
    IN  extract_images(pg, caps, pnum)
        \o extract_tables(pg, caps, pnum)
        \o extract_vector_graphics(pg, caps, pnum)

\* variant: the handler marks the failure and leaves the error unset
except_handler_no_error(res, msg) == [res EXCEPT !.success = FALSE]

\* except Exception as e: results['success'] = False; results['error'] = str(e)
except_handler(res, msg) == [res EXCEPT !.success = FALSE, !.error = <<msg>>]

\* pages of a document: one with a large image and no text, one with a line
\* of text that is no caption, a small and a large image and a cluster of
\* paths, one with two images at the same distance from a caption that
\* continues 'Figure 1', one with two images at the same distance from the
\* caption 'Figure 3', one with a table caption above a line of text, one with a captioned image, one
\* with an image, a table and a cluster of paths, and one on which a PyMuPDF
\* call raises
DocPages ==
    { [blocks |-> <<>>,
       images |-> << [xref |-> 1, rects |-> <<BoundingBox(100, 100, 300, 300)>>,
                      pix |-> [width |-> 200, height |-> 200]] >>,
       drawings |-> <<>>, raises |-> FALSE],
      [blocks |-> << [type |-> 0, bbox |-> BoundingBox(100, 310, 300, 320),
                      lines |-> << [text |-> <<"Results", SP, "shows">>,
                                    bbox |-> BoundingBox(100, 310, 300, 320)] >>] >>,
       images |-> << [xref |-> 1, rects |-> <<BoundingBox(100, 100, 150, 150)>>,
                      pix |-> [width |-> 200, height |-> 200]],
                     [xref |-> 2, rects |-> <<BoundingBox(100, 100, 300, 300)>>,
                      pix |-> [width |-> 200, height |-> 200]] >>,
       drawings |-> PagePaths(MaxPaths), raises |-> FALSE],
      [blocks |-> << [type |-> 0, bbox |-> BoundingBox(100, 310, 300, 320),
                      lines |-> << [text |-> <<"Figure", SP, "1", SP, "(continued)">>,
                                    bbox |-> BoundingBox(100, 310, 300, 320)] >>] >>,
       images |-> << [xref |-> 1, rects |-> <<BoundingBox(100, 100, 300, 300)>>,
                      pix |-> [width |-> 200, height |-> 200]],
                     [xref |-> 2, rects |-> <<BoundingBox(100, 330, 300, 530)>>,
                      pix |-> [width |-> 200, height |-> 200]] >>,
       drawings |-> <<>>, raises |-> FALSE],
      [blocks |-> << [type |-> 0, bbox |-> BoundingBox(100, 310, 300, 320),
                      lines |-> << [text |-> <<"Figure", SP, "3">>,
                                    bbox |-> BoundingBox(100, 310, 300, 320)] >>] >>,
       images |-> << [xref |-> 1, rects |-> <<BoundingBox(100, 100, 300, 300)>>,
                      pix |-> [width |-> 200, height |-> 200]],
                     [xref |-> 2, rects |-> <<BoundingBox(100, 330, 300, 530)>>,
                      pix |-> [width |-> 200, height |-> 200]] >>,
       drawings |-> <<>>, raises |-> FALSE],
      [blocks |-> << [type |-> 0, bbox |-> BoundingBox(100, 80, 300, 90),
                      lines |-> << [text |-> <<"Table", SP, "7">>,
                                    bbox |-> BoundingBox(100, 80, 300, 90)] >>],
                     [type |-> 0, bbox |-> BoundingBox(100, 325, 300, 335),
                      lines |-> << [text |-> <<"Results", SP, "shows">>,
                                    bbox |-> BoundingBox(100, 325, 300, 335)] >>] >>,
       images |-> <<>>, drawings |-> <<>>, raises |-> FALSE],
      [blocks |-> << [type |-> 0, bbox |-> BoundingBox(100, 310, 300, 320),
                      lines |-> << [text |-> <<"Figure", SP, "7">>,
                                    bbox |-> BoundingBox(100, 310, 300, 320)] >>] >>,
       images |-> << [xref |-> 1, rects |-> <<BoundingBox(100, 100, 300, 300)>>,
                      pix |-> [width |-> 200, height |-> 200]] >>,
       drawings |-> <<>>, raises |-> FALSE],
      [blocks |-> << [type |-> 0, bbox |-> BoundingBox(100, 80, 300, 90),
                      lines |-> << [text |-> <<"Table", SP, "7">>,
                                    bbox |-> BoundingBox(100, 80, 300, 90)] >>],
                     [type |-> 0, bbox |-> BoundingBox(100, 310, 300, 320),
                      lines |-> << [text |-> <<"Figure", SP, "7">>,
                                    bbox |-> BoundingBox(100, 310, 300, 320)] >>] >>,
       images |-> << [xref |-> 1, rects |-> <<BoundingBox(100, 100, 300, 300)>>,
                      pix |-> [width |-> 200, height |-> 200]] >>,
       drawings |-> PagePaths(MaxPaths), raises |-> FALSE],
      [blocks |-> <<>>, images |-> <<>>, drawings |-> <<>>, raises |-> TRUE] }

DocInputs ==
    { [open_raises |-> o, pages |-> ps]
        : o \in BOOLEAN, ps \in UNION { [1..n -> DocPages] : n \in 0..MaxPages } }

DocIdle ==
    /\ document = [open_raises |-> FALSE, pages |-> <<>>]
    /\ doc_page_num = 0
    /\ doc_figures = <<>>
    /\ doc_results = [success |-> TRUE, figures |-> <<>>, error |-> None]
    /\ dpc = "idle"

\* results = {'success': True, 'figures': [], 'processing_time': 0, 'error': None}
DocStart ==
    /\ document \in DocInputs
    /\ doc_page_num = 0
    /\ doc_figures = <<>>
    /\ doc_results = [success |-> TRUE, figures |-> <<>>, error |-> None]
    /\ dpc = "open"

\* doc = fitz.open(pdf_path); all_figures = []
DocOpen ==
    /\ dpc = "open"
    /\ IF document.open_raises
       THEN /\ doc_results' = except_handler(doc_results, "cannot open broken document")
            /\ dpc' = "return"
       ELSE /\ dpc' = "pages"
            /\ UNCHANGED doc_results
    /\ UNCHANGED <<document, doc_page_num, doc_figures>>
    /\ UNCHANGED <<mergeVars, nearestVars, extractVars, pymuVars, cliVars, fetchVars,
                   groupVars, pfVars, pmdVars, sanVars, tabVars, clVars>>

\* one iteration of `for page_num in range(len(doc))`
DocPage ==
    /\ dpc = "pages"
    /\ doc_page_num < Len(document.pages)
    /\ LET pg == document.pages[doc_page_num + 1]
       IN  IF pg.raises
           THEN /\ doc_results' = except_handler(doc_results, "cannot read page")
                /\ dpc' = "return"
                /\ UNCHANGED <<doc_page_num, doc_figures>>
           ELSE /\ doc_figures' = doc_figures \o extract_from_page(pg, doc_page_num)
                /\ doc_page_num' = doc_page_num + 1
                /\ UNCHANGED <<doc_results, dpc>>
    /\ UNCHANGED document
    /\ UNCHANGED <<mergeVars, nearestVars, extractVars, pymuVars, cliVars, fetchVars,
                   groupVars, pfVars, pmdVars, sanVars, tabVars, clVars>>

\* all_figures = self._merge_multipage_elements(all_figures)
DocMerge ==
    /\ dpc = "pages"
    /\ doc_page_num = Len(document.pages)
    /\ doc_figures' = merge_multipage_elements(doc_figures)
    /\ dpc' = "convert"
    /\ UNCHANGED <<document, doc_page_num, doc_results>>
    /\ UNCHANGED <<mergeVars, nearestVars, extractVars, pymuVars, cliVars, fetchVars,
                   groupVars, pfVars, pmdVars, sanVars, tabVars, clVars>>

\* the conversion loop, doc.close() and the end of the try block
DocConvert ==
    /\ dpc = "convert"
    /\ doc_results' = [doc_results EXCEPT !.figures =
                          [k \in 1..Len(doc_figures) |-> output_record(doc_figures[k])]]
    /\ dpc' = "return"
    /\ UNCHANGED <<document, doc_page_num, doc_figures>>
    /\ UNCHANGED <<mergeVars, nearestVars, extractVars, pymuVars, cliVars, fetchVars,
                   groupVars, pfVars, pmdVars, sanVars, tabVars, clVars>>

(***************************************************************************)
(* PDFFigures2Extractor.extract (pdffigures2-extractor.py)                 *)
(***************************************************************************)
TmpDir == "pdffigures2_tmp"
OutDir == "out"

\* one entry of extraction_data['figures'], with the image file the Java
\* process wrote for it (or none)
PfFigs ==
    { [figType |-> t, name |-> "1", page |-> p, caption |-> c.caption,
       captionBoundary |-> c.boundary, image_file |-> f]
        : t \in {"Figure", "Table"}, p \in {0, 1}, f \in {".png", "none"},
          c \in { [caption |-> "", boundary |-> "boundary text"],
                  [caption |-> "caption", boundary |-> "boundary text"] } }

PfData == UNION { [1..n -> PfFigs] : n \in 0..MaxPfFigs }

\* the record built for one entry of extraction_data['figures']
pf_record(fig) ==
    [type |-> IF fig.figType \in {"Table", "table", "TABLE"} THEN "table" ELSE "figure",
     pageNumber |-> fig.page + 1,
     name |-> fig.name,
     caption |-> IF fig.caption # "" THEN fig.caption ELSE fig.captionBoundary,
     image |-> IF fig.image_file # "none" THEN "data:image/png;base64" ELSE "None",
     source |-> "pdffigures2"]

\* figures.sort(key=lambda x: x['pageNumber']): a stable sort
RECURSIVE pf_sort_from(_, _)
pf_sort_from(figs, p) ==
    IF \A k \in 1..Len(figs) : figs[k].pageNumber < p THEN <<>>
    ELSE SelectSeq(figs, LAMBDA f : f.pageNumber = p) \o pf_sort_from(figs, p + 1)

pf_sort(figs) == pf_sort_from(figs, 1)

\* the `finally` clause; shutil.rmtree(output_dir, ignore_errors=True) passes
\* over a failed deletion and leaves the directory (removable = FALSE)
pf_finally(dirs, cleanup, output_dir, removable) ==
    IF cleanup /\ output_dir \in dirs /\ removable THEN dirs \ {output_dir} ELSE dirs

PfIdle ==
    /\ pf_pdf_path = None
    /\ pf_output_dir = None
    /\ pf_given = None
    /\ pf_cleanup = FALSE
    /\ pf_dirs = {}
    /\ pf_data = <<>>
    /\ pf_result = None
    /\ pf_pc = "idle"

PfStart ==
    /\ pf_pdf_path \in {<<"paper.pdf">>, None}
    /\ pf_given \in {None, <<OutDir>>}
    /\ pf_output_dir = pf_given
    /\ pf_cleanup = FALSE
    /\ pf_dirs \in (IF pf_given = None THEN {{}} ELSE {{}, {OutDir}})
    /\ pf_data = <<>>
    /\ pf_result = None
    /\ pf_pc = "call"

\* `if output_dir is None: ... else: ...`; mkdtemp or makedirs may raise
PfOutputDir ==
    /\ pf_pc = "call"
    /\ \E ok \in BOOLEAN :
          IF ~ok
          THEN /\ pf_pc' = "raised"
               /\ UNCHANGED <<pf_output_dir, pf_cleanup, pf_dirs>>
          ELSE /\ pf_pc' = "paths"
               /\ IF pf_output_dir = None
                  THEN /\ pf_output_dir' = <<TmpDir>>
                       /\ pf_cleanup' = TRUE
                       /\ pf_dirs' = pf_dirs \cup {TmpDir}
                  ELSE /\ pf_cleanup' = FALSE
                       /\ pf_dirs' = pf_dirs \cup {pf_output_dir[1]}
                       /\ UNCHANGED pf_output_dir
    /\ UNCHANGED <<pf_pdf_path, pf_given, pf_data, pf_result>>
    /\ UNCHANGED <<mergeVars, nearestVars, extractVars, pymuVars, cliVars, fetchVars,
                   groupVars, docVars, pmdVars, sanVars, tabVars, clVars>>

\* os.path.abspath(pdf_path) and the two os.makedirs calls, before the try:
\* abspath raises TypeError when pdf_path is None, makedirs may raise OSError
PfPaths ==
    /\ pf_pc = "paths"
    /\ \E makedirs_ok \in BOOLEAN :
          pf_pc' = IF pf_pdf_path = None \/ ~makedirs_ok THEN "raised" ELSE "run"
    /\ UNCHANGED <<pf_pdf_path, pf_output_dir, pf_given, pf_cleanup, pf_dirs, pf_data,
                   pf_result>>
    /\ UNCHANGED <<mergeVars, nearestVars, extractVars, pymuVars, cliVars, fetchVars,
                   groupVars, docVars, pmdVars, sanVars, tabVars, clVars>>

\* subprocess.run(cmd, ..., timeout=120) and the test of its return code
PfRun ==
    /\ pf_pc = "run"
    /\ \E run \in {"zero", "nonzero", "timeout", "oserror"} :
          CASE run = "zero" ->
                 /\ pf_pc' = "parse"
                 /\ UNCHANGED pf_result
            [] run = "nonzero" ->
                 /\ pf_pc' = "finally"
                 /\ pf_result' = [success |-> FALSE, error |-> "PDFFigures2 failed: stderr"]
            [] run = "timeout" ->
                 /\ pf_pc' = "finally"
                 /\ pf_result' = [success |-> FALSE, error |-> "PDFFigures2 extraction timeout"]
            [] run = "oserror" ->
                 /\ pf_pc' = "finally"
                 /\ pf_result' = [success |-> FALSE, error |-> "str(e)"]
    /\ UNCHANGED <<pf_pdf_path, pf_output_dir, pf_given, pf_cleanup, pf_dirs, pf_data>>
    /\ UNCHANGED <<mergeVars, nearestVars, extractVars, pymuVars, cliVars, fetchVars,
                   groupVars, docVars, pmdVars, sanVars, tabVars, clVars>>

\* the test for the JSON file and json.load
PfParse ==
    /\ pf_pc = "parse"
    /\ \/ /\ pf_pc' = "finally"
          /\ pf_result' = [success |-> FALSE, error |-> "No output generated"]
          /\ UNCHANGED pf_data
       \/ /\ pf_pc' = "finally"
          /\ pf_result' = [success |-> FALSE, error |-> "str(e)"]
          /\ UNCHANGED pf_data
       \/ \E data \in PfData :
             /\ pf_data' = data
             /\ pf_pc' = "build"
             /\ UNCHANGED pf_result
    /\ UNCHANGED <<pf_pdf_path, pf_output_dir, pf_given, pf_cleanup, pf_dirs>>
    /\ UNCHANGED <<mergeVars, nearestVars, extractVars, pymuVars, cliVars, fetchVars,
                   groupVars, docVars, pmdVars, sanVars, tabVars, clVars>>

\* the loop over extraction_data['figures'], the sort and the return statement
PfBuild ==
    /\ pf_pc = "build"
    /\ pf_result' = [success |-> TRUE,
                     figures |-> pf_sort([k \in 1..Len(pf_data) |-> pf_record(pf_data[k])])]
    /\ pf_pc' = "finally"
    /\ UNCHANGED <<pf_pdf_path, pf_output_dir, pf_given, pf_cleanup, pf_dirs, pf_data>>
    /\ UNCHANGED <<mergeVars, nearestVars, extractVars, pymuVars, cliVars, fetchVars,
                   groupVars, docVars, pmdVars, sanVars, tabVars, clVars>>

\* the `finally` clause, then the pending return
PfFinally ==
    /\ pf_pc = "finally"
    /\ \E removable \in BOOLEAN :
          pf_dirs' = pf_finally(pf_dirs, pf_cleanup, pf_output_dir[1], removable)
    /\ pf_pc' = "returned"
    /\ UNCHANGED <<pf_pdf_path, pf_output_dir, pf_given, pf_cleanup, pf_data, pf_result>>
    /\ UNCHANGED <<mergeVars, nearestVars, extractVars, pymuVars, cliVars, fetchVars,
                   groupVars, docVars, pmdVars, sanVars, tabVars, clVars>>

(***************************************************************************)
(* PyMuPDFExtractor.extract on a document of several pages                 *)
(***************************************************************************)
\* the records of the image loop of one page, from image k on
RECURSIVE pm_images_from(_, _, _)
pm_images_from(pg, page_num, k) ==
    IF k > Len(pg.images) THEN <<>>
    ELSE pm_image_records(pg, page_num, k) \o pm_images_from(pg, page_num, k + 1)

\* the records of the drawing loop of one page, from drawing k on
RECURSIVE pm_drawings_from(_, _, _)
pm_drawings_from(pg, page_num, k) ==
    IF k > Len(pg.drawings) THEN <<>>
    ELSE pm_drawing_records(pg, page_num, k) \o pm_drawings_from(pg, page_num, k + 1)

\* the body of `for page_num in range(len(doc))` on results: a page raises at
\* page.get_text() ("text"), at page.get_pixmap(matrix=mat) ("pixmap", reached
\* only when the page has drawings), or not at all ("no")
pm_extract_page(res, pg, page_num) ==
    IF pg.raises = "text" THEN [res EXCEPT !.raised = TRUE]
    ELSE LET imgs == [res EXCEPT !.figures = @ \o pm_images_from(pg, page_num, 1)]
         IN  IF pg.drawings = <<>> THEN imgs
             ELSE IF pg.raises = "pixmap" THEN [imgs EXCEPT !.raised = TRUE]
             ELSE [imgs EXCEPT !.figures = @ \o pm_drawings_from(pg, page_num, 1)]

\* `except Exception as e`
pm_except(res, msg) == [res EXCEPT !.success = FALSE, !.error = <<msg>>]

PmdPages ==
    { [text |-> p.text, rect |-> BoundingBox(0, 0, 600, 800),
       images |-> p.images, drawings |-> p.drawings, raises |-> r]
        : p \in { [text |-> <<>>,
                   images |-> << [xref |-> 1, pix |-> [width |-> 200, height |-> 200],
                                  bbox |-> BoundingBox(100, 100, 300, 300)] >>,
                   drawings |-> <<>>],
                  [text |-> <<"Table", SP, "7">>,
                   images |-> << [xref |-> 1, pix |-> [width |-> 200, height |-> 200],
                                  bbox |-> BoundingBox(100, 0, 300, 40)] >>,
                   drawings |-> << [items |-> 11,
                                    rect |-> BoundingBox(50, 50, 250, 250)] >>],
                  [text |-> <<"Figure", SP, "7.">>, images |-> <<>>,
                   drawings |-> <<>>] },
          r \in {"no", "text", "pixmap"} }

PmdInputs ==
    { [open_raises |-> o, pages |-> ps]
        : o \in BOOLEAN, ps \in UNION { [1..n -> PmdPages] : n \in 0..MaxPages } }

PmdIdle ==
    /\ pmd_doc = [open_raises |-> FALSE, pages |-> <<>>]
    /\ pmd_page_num = 0
    /\ pmd_results = [success |-> TRUE, figures |-> <<>>, error |-> None]
    /\ pmd_pc = "idle"

\* results = {'success': True, 'figures': [], 'processing_time': 0, 'error': None}
PmdStart ==
    /\ pmd_doc \in PmdInputs
    /\ pmd_page_num = 0
    /\ pmd_results = [success |-> TRUE, figures |-> <<>>, error |-> None]
    /\ pmd_pc = "open"

\* doc = fitz.open(pdf_path)
PmdOpen ==
    /\ pmd_pc = "open"
    /\ IF pmd_doc.open_raises
       THEN /\ pmd_results' = pm_except(pmd_results, "open")
            /\ pmd_pc' = "finish"
       ELSE /\ pmd_pc' = "pages"
            /\ UNCHANGED pmd_results
    /\ UNCHANGED <<pmd_doc, pmd_page_num>>
    /\ UNCHANGED <<mergeVars, nearestVars, extractVars, pymuVars, cliVars, fetchVars,
                   groupVars, docVars, pfVars, sanVars, tabVars, clVars>>

\* one iteration of `for page_num in range(len(doc))`
PmdPage ==
    /\ pmd_pc = "pages"
    /\ pmd_page_num < Len(pmd_doc.pages)
    /\ LET st == pm_extract_page([figures |-> pmd_results.figures, raised |-> FALSE],
                         pmd_doc.pages[pmd_page_num + 1], pmd_page_num)
       IN  IF st.raised
           THEN /\ pmd_results' =
                       pm_except([pmd_results EXCEPT !.figures = st.figures], "page")
                /\ pmd_pc' = "finish"
                /\ UNCHANGED pmd_page_num
           ELSE /\ pmd_results' = [pmd_results EXCEPT !.figures = st.figures]
                /\ pmd_page_num' = pmd_page_num + 1
                /\ UNCHANGED pmd_pc
    /\ UNCHANGED pmd_doc
    /\ UNCHANGED <<mergeVars, nearestVars, extractVars, pymuVars, cliVars, fetchVars,
                   groupVars, docVars, pfVars, sanVars, tabVars, clVars>>

\* the end of the page loop: doc.close()
PmdClose ==
    /\ pmd_pc = "pages"
    /\ pmd_page_num >= Len(pmd_doc.pages)
    /\ pmd_pc' = "finish"
    /\ UNCHANGED <<pmd_doc, pmd_page_num, pmd_results>>
    /\ UNCHANGED <<mergeVars, nearestVars, extractVars, pymuVars, cliVars, fetchVars,
                   groupVars, docVars, pfVars, sanVars, tabVars, clVars>>

\* results['processing_time'] = ...; return results
PmdReturn ==
    /\ pmd_pc = "finish"
    /\ pmd_pc' = "done"
    /\ UNCHANGED <<pmd_doc, pmd_page_num, pmd_results>>
    /\ UNCHANGED <<mergeVars, nearestVars, extractVars, pymuVars, cliVars, fetchVars,
                   groupVars, docVars, pfVars, sanVars, tabVars, clVars>>

(***************************************************************************)
(* universal-text-sanitizer.py: a call of sanitize_for_filename            *)
(***************************************************************************)
\* characters of the texts handed in: a letter, a dot, a blank, a tab, a
\* slash, the division sign, the ellipsis and the euro sign
SanChars == { "a", ".", " ", "\t", "/", "U+00F7", "U+2026", "U+20AC" }

SanTexts == UNION { [1..n -> SanChars] : n \in 0..MaxSanChars }

SanIdle ==
    /\ san_text = <<>>
    /\ san_out = None
    /\ san_pc = "idle"

SanStart ==
    /\ san_text \in SanTexts
    /\ san_out = None
    /\ san_pc = "load"

\* Python compiles the whole file before it runs any of it, and the list
\* test_cases at the end of the file holds the line
\*     "Quotes: "Hello" 'world'",
\* which is not an expression: loading the module raises SyntaxError, the
\* class is never defined and no call of sanitize_for_filename is made
SanLoad ==
    /\ san_pc = "load"
    /\ san_pc' = "raised"
    /\ UNCHANGED <<san_text, san_out>>
    /\ UNCHANGED <<mergeVars, nearestVars, extractVars, pymuVars, cliVars, fetchVars,
                   groupVars, docVars, pfVars, pmdVars, tabVars, clVars>>

(***************************************************************************)
(* extract_table_from_position                                             *)
(***************************************************************************)
\* A line is a sequence of tokens: a word, one blank " ", two blanks "  ", a
\* tab, the heading mark "#" or a box rule.
BoxRule == "box rule"
IsSpace(tok) == tok \in {" ", "  ", "\t"}

\* the number of whitespace tokens toks starts with
RECURSIVE SpaceRun(_)
SpaceRun(toks) ==
    IF toks = <<>> \/ ~IsSpace(Head(toks)) THEN 0 ELSE 1 + SpaceRun(Tail(toks))

\* str.strip() of a line
RECURSIVE tab_strip(_)
tab_strip(toks) ==
    IF toks = <<>> THEN <<>>
    ELSE IF IsSpace(Head(toks)) THEN tab_strip(Tail(toks))
    ELSE IF IsSpace(toks[Len(toks)]) THEN tab_strip(SubSeq(toks, 1, Len(toks) - 1))
    ELSE toks

\* the whitespace toks starts with is matched by \s{2,}|\t: two whitespace
\* characters or more, or one tab
Separates(toks) ==
    SpaceRun(toks) >= 2 \/ (SpaceRun(toks) = 1 /\ Head(toks) \in {"  ", "\t"})

\* [x.strip() for x in re.split(r'\s{2,}|\t', line) if x.strip()], the cell
\* cur being the one under way
RECURSIVE tab_split(_, _)
tab_split(toks, cur) ==
    IF toks = <<>> THEN (IF cur = <<>> THEN <<>> ELSE <<cur>>)
    ELSE IF Separates(toks)
         THEN (IF cur = <<>> THEN <<>> ELSE <<cur>>)
              \o tab_split(SubSeq(toks, SpaceRun(toks) + 1, Len(toks)), <<>>)
    ELSE tab_split(Tail(toks), Append(cur, Head(toks)))

\* variant: a long row is not cut down to the number of headers
tab_fit_padded_only(row_data, n) ==
    [k \in 1..(IF Len(row_data) < n THEN n ELSE Len(row_data)) |->
        IF k <= Len(row_data) THEN row_data[k] ELSE <<>>]

\* `while len(row_data) < len(headers): row_data.append('')`, then
\* row_data[:len(headers)]
tab_fit(row_data, n) ==
    [k \in 1..n |-> IF k <= Len(row_data) THEN row_data[k] ELSE <<>>]

\* the test that ends the while loop; only fixed_numbering_formatter.py looks
\* for the box rule
tab_stops(file, line) ==
    IF line = <<>> THEN TRUE
    ELSE IF Head(line) = "#" THEN TRUE
    ELSE file = "fixed_numbering_formatter"
         /\ \E k \in 1..Len(line) : line[k] = BoxRule

TabLines ==
    { <<>>,
      <<"a">>,
      <<"a", "  ", "b">>,
      <<"a", "\t", "b", "\t", "c">>,
      <<"  ", "a", " ", "b", "  ", "c", " ">>,
      <<"#", " ", "a">>,
      <<BoxRule>> }

TabInputs ==
    { [file |-> f, lines |-> ls, start_idx |-> st]
        : f \in {"fixed_numbering_formatter", "readable_formatter"},
          ls \in UNION { [1..n -> TabLines] : n \in 1..MaxTabLines },
          st \in 0..(MaxTabLines - 1) }

TabIdle ==
    /\ tab_file = "none"
    /\ tab_lines = <<>>
    /\ tab_start = 0
    /\ tab_headers = <<>>
    /\ tab_rows = <<>>
    /\ tab_original = <<>>
    /\ tab_i = 0
    /\ tab_out = None
    /\ tab_pc = "idle"

\* headers = []; rows = []; original_text_lines = []
TabStart ==
    /\ \E in \in TabInputs :
          /\ in.start_idx < Len(in.lines)
          /\ tab_file = in.file
          /\ tab_lines = in.lines
          /\ tab_start = in.start_idx
    /\ tab_headers = <<>>
    /\ tab_rows = <<>>
    /\ tab_original = <<>>
    /\ tab_i = 0
    /\ tab_out = None
    /\ tab_pc = "headers"

\* the header line, the test for two headers and the separator line
TabHeaders ==
    /\ tab_pc = "headers"
    /\ LET headers == tab_split(tab_strip(tab_lines[tab_start + 1]), <<>>)
       IN  /\ tab_headers' = headers
           /\ IF Len(headers) < 2
              THEN /\ tab_pc' = "done"
                   /\ tab_original' = <<tab_start>>
                   /\ UNCHANGED tab_i
              ELSE /\ tab_pc' = "rows"
                   /\ tab_original' = IF tab_start + 1 < Len(tab_lines)
                                      THEN <<tab_start, tab_start + 1>>
                                      ELSE <<tab_start>>
                   /\ tab_i' = tab_start + 2
    /\ UNCHANGED <<tab_file, tab_lines, tab_start, tab_rows, tab_out>>
    /\ UNCHANGED <<mergeVars, nearestVars, extractVars, pymuVars, cliVars, fetchVars,
                   groupVars, docVars, pfVars, pmdVars, sanVars, clVars>>

\* one iteration of `while i < len(lines)` that does not break
TabRow ==
    /\ tab_pc = "rows"
    /\ tab_i < Len(tab_lines)
    /\ LET line == tab_strip(tab_lines[tab_i + 1])
           row_data == tab_split(line, <<>>)
       IN  /\ ~tab_stops(tab_file, line)
           /\ IF row_data # <<>>
              THEN /\ tab_rows' = Append(tab_rows, tab_fit(row_data, Len(tab_headers)))
                   /\ tab_original' = Append(tab_original, tab_i)
              ELSE UNCHANGED <<tab_rows, tab_original>>
    /\ tab_i' = tab_i + 1
    /\ UNCHANGED <<tab_file, tab_lines, tab_start, tab_headers, tab_out, tab_pc>>
    /\ UNCHANGED <<mergeVars, nearestVars, extractVars, pymuVars, cliVars, fetchVars,
                   groupVars, docVars, pfVars, pmdVars, sanVars, clVars>>

\* the end of the loop (its condition, or the break) and the return
TabReturn ==
    /\ tab_pc = "rows"
    /\ IF tab_i >= Len(tab_lines) THEN TRUE
       ELSE tab_stops(tab_file, tab_strip(tab_lines[tab_i + 1]))
    /\ tab_out' = IF tab_rows # <<>>
                  THEN << [headers |-> tab_headers, rows |-> tab_rows,
                           original_text |-> tab_original] >>
                  ELSE None
    /\ tab_pc' = "done"
    /\ UNCHANGED <<tab_file, tab_lines, tab_start, tab_headers, tab_rows, tab_original,
                   tab_i>>
    /\ UNCHANGED <<mergeVars, nearestVars, extractVars, pymuVars, cliVars, fetchVars,
                   groupVars, docVars, pfVars, pmdVars, sanVars, clVars>>

(***************************************************************************)
(* Specifications                                                          *)
(***************************************************************************)
InitMerge ==
    MergeStart /\ NearestIdle /\ ExtractIdle /\ PmIdle /\ CliIdle /\ FetchIdle
    /\ GroupIdle /\ DocIdle /\ PfIdle /\ PmdIdle /\ SanIdle /\ TabIdle /\ ClIdle
NextMerge == MergeIter \/ MergeReturn
SpecMerge == InitMerge /\ [][NextMerge]_vars

InitNearest ==
    NearestStart /\ MergeIdle /\ ExtractIdle /\ PmIdle /\ CliIdle /\ FetchIdle
    /\ GroupIdle /\ DocIdle /\ PfIdle /\ PmdIdle /\ SanIdle /\ TabIdle /\ ClIdle
NextNearest == NearestIter \/ NearestReturn
SpecNearest == InitNearest /\ [][NextNearest]_vars

InitExtract ==
    ExtractStart /\ MergeIdle /\ NearestIdle /\ PmIdle /\ CliIdle /\ FetchIdle
    /\ GroupIdle /\ DocIdle /\ PfIdle /\ PmdIdle /\ SanIdle /\ TabIdle /\ ClIdle
NextExtract ==
    \/ FindCaptions \/ ExtractImages \/ ExtractTables
    \/ ExtractVector \/ ExtractMerge \/ ExtractConvert
SpecExtract == InitExtract /\ [][NextExtract]_vars

InitPyMu ==
    PmStart /\ MergeIdle /\ NearestIdle /\ ExtractIdle /\ CliIdle /\ FetchIdle
    /\ GroupIdle /\ DocIdle /\ PfIdle /\ PmdIdle /\ SanIdle /\ TabIdle /\ ClIdle
NextPyMu == PmImage \/ PmGetDrawings \/ PmDrawing \/ PmReturn
SpecPyMu == InitPyMu /\ [][NextPyMu]_vars

\* a document handed to either extractor
InitExtractors == InitExtract \/ InitPyMu
NextExtractors == NextExtract \/ NextPyMu
SpecExtractors == InitExtractors /\ [][NextExtractors]_vars

\* a call of _find_nearest_caption, or a page handed to extract
InitCaptioned == InitNearest \/ InitExtract
NextCaptioned == NextNearest \/ NextExtract
SpecCaptioned == InitCaptioned /\ [][NextCaptioned]_vars

InitCl ==
    ClStart /\ MergeIdle /\ NearestIdle /\ ExtractIdle /\ PmIdle /\ CliIdle /\ FetchIdle
    /\ GroupIdle /\ DocIdle /\ PfIdle /\ PmdIdle /\ SanIdle /\ TabIdle
NextCl == ClFind
SpecCl == InitCl /\ [][NextCl]_vars

\* the captions of a line, and the records of a page made from them
InitTyped == InitCl \/ InitExtract
NextTyped == NextCl \/ NextExtract
SpecTyped == InitTyped /\ [][NextTyped]_vars

InitCli ==
    CliStart /\ MergeIdle /\ NearestIdle /\ ExtractIdle /\ PmIdle /\ FetchIdle
    /\ GroupIdle /\ DocIdle /\ PfIdle /\ PmdIdle /\ SanIdle /\ TabIdle /\ ClIdle
NextCli == CliCheckArgs \/ CliRun \/ CliReport
SpecCli == InitCli /\ [][NextCli]_vars

InitFetch ==
    FetchStart /\ MergeIdle /\ NearestIdle /\ ExtractIdle /\ PmIdle /\ CliIdle
    /\ GroupIdle /\ DocIdle /\ PfIdle /\ PmdIdle /\ SanIdle /\ TabIdle /\ ClIdle
NextFetch == FetchCheckArgs \/ FetchTry \/ FetchAllFailed
SpecFetch == InitFetch /\ [][NextFetch]_vars
\* main runs on: a started run is not suspended for ever
SpecFetchFair == SpecFetch /\ WF_vars(NextFetch)

InitGroup ==
    GroupStart /\ MergeIdle /\ NearestIdle /\ ExtractIdle /\ PmIdle /\ CliIdle
    /\ FetchIdle /\ DocIdle /\ PfIdle /\ PmdIdle /\ SanIdle /\ TabIdle /\ ClIdle
NextGroup == GroupCall
SpecGroup == InitGroup /\ [][NextGroup]_vars

InitDoc ==
    DocStart /\ MergeIdle /\ NearestIdle /\ ExtractIdle /\ PmIdle /\ CliIdle
    /\ FetchIdle /\ GroupIdle /\ PfIdle /\ PmdIdle /\ SanIdle /\ TabIdle /\ ClIdle
NextDoc == DocOpen \/ DocPage \/ DocMerge \/ DocConvert
SpecDoc == InitDoc /\ [][NextDoc]_vars

\* the images of one page, and the pages of a document
InitPaired == InitExtract \/ InitDoc
NextPaired == NextExtract \/ NextDoc
SpecPaired == InitPaired /\ [][NextPaired]_vars

InitPf ==
    PfStart /\ MergeIdle /\ NearestIdle /\ ExtractIdle /\ PmIdle /\ CliIdle
    /\ FetchIdle /\ GroupIdle /\ DocIdle /\ PmdIdle /\ SanIdle /\ TabIdle /\ ClIdle
NextPf == PfOutputDir \/ PfPaths \/ PfRun \/ PfParse \/ PfBuild \/ PfFinally
SpecPf == InitPf /\ [][NextPf]_vars

InitPmd ==
    PmdStart /\ MergeIdle /\ NearestIdle /\ ExtractIdle /\ PmIdle /\ CliIdle
    /\ FetchIdle /\ GroupIdle /\ DocIdle /\ PfIdle /\ SanIdle /\ TabIdle /\ ClIdle
NextPmd == PmdOpen \/ PmdPage \/ PmdClose \/ PmdReturn
SpecPmd == InitPmd /\ [][NextPmd]_vars

InitSan ==
    SanStart /\ MergeIdle /\ NearestIdle /\ ExtractIdle /\ PmIdle /\ CliIdle
    /\ FetchIdle /\ GroupIdle /\ DocIdle /\ PfIdle /\ PmdIdle /\ TabIdle /\ ClIdle
NextSan == SanLoad
SpecSan == InitSan /\ [][NextSan]_vars

InitTab ==
    TabStart /\ MergeIdle /\ NearestIdle /\ ExtractIdle /\ PmIdle /\ CliIdle
    /\ FetchIdle /\ GroupIdle /\ DocIdle /\ PfIdle /\ PmdIdle /\ SanIdle /\ ClIdle
NextTab == TabHeaders \/ TabRow \/ TabReturn
SpecTab == InitTab /\ [][NextTab]_vars

(***************************************************************************)
(* Properties of _merge_multipage_elements                                 *)
(***************************************************************************)
\* a name of the form 'Table N' / 'Figure N'
NumberedName(name) == Len(name) = 3 /\ name[1] \in {"Table", "Figure"}

\* record i is the one record before j that carries j's name, and j's caption
\* carries a continuation marker
ContinuationPair(i, j) ==
    /\ i < j
    /\ NumberedName(figures0[i].name)
    /\ figures0[j].name = figures0[i].name
    /\ is_continuation(figures0[j].caption)
    /\ \A k \in 1..(j - 1) : k # i => figures0[k].name # figures0[j].name

InOutput(i) == \E k \in 1..Len(merged) : merged[k] = i

\* C2: a record named 'Table 3' followed later by a record of the same name whose
\* caption carries a continuation marker come out as one record: the first
\* record is in the output with the caption <first caption> <blank> <second
\* caption>, and the continuation record is not in the output.
C2_ContinuationMerged ==
    mpc = "done" =>
        \A i, j \in 1..Len(figures0) :
            ContinuationPair(i, j) =>
                /\ InOutput(i)
                /\ ~InOutput(j)
                /\ figures[i].caption =
                       figures0[i].caption \o <<SP>> \o figures0[j].caption
                /\ Cardinality({k \in 1..Len(merged) : merged[k] \in {i, j}}) = 1

C2_Witness ==
    /\ mpc = "done"
    /\ \E i, j \in 1..Len(figures0) :
           /\ ContinuationPair(i, j)
           /\ figures0[i].name = <<"Table", SP, "3">>
           /\ figures0[j].caption = <<"Table", SP, "3", SP, "(continued)">>
           /\ ~InOutput(j)

(***************************************************************************)
(* Properties of _find_nearest_caption                                     *)
(***************************************************************************)
\* caption k may be matched to the element: aligned and closer than the limit
Eligible(k) ==
    /\ Abs(captions[k].bbox.x1 - figure_bbox.x1) <= 100
    /\ vertical_distance(figure_bbox, captions[k].bbox) < 100

DistanceTo(k) == vertical_distance(figure_bbox, captions[k].bbox)

\* C3: the element is given at most one caption: none when no caption is
\* eligible, otherwise the eligible caption of minimum vertical distance, and
\* among several at that minimum the first in scan order.  The loop and the
\* function agree on it.
C3_NearestFirstWins ==
    npc = "done" =>
        /\ best_caption = find_nearest_caption(figure_bbox, captions)
        /\ best_caption \in 0..Len(captions)
        /\ (best_caption = 0) <=> (\A k \in 1..Len(captions) : ~Eligible(k))
        /\ best_caption # 0 =>
              /\ Eligible(best_caption)
              /\ \A k \in 1..Len(captions) :
                    Eligible(k) => DistanceTo(k) >= DistanceTo(best_caption)
              /\ \A k \in 1..(best_caption - 1) :
                    Eligible(k) => DistanceTo(k) > DistanceTo(best_caption)

\* two eligible captions at the same minimum distance, the first one returned
C3_Witness ==
    /\ npc = "done"
    /\ best_caption # 0
    /\ \E k \in 1..Len(captions) :
          /\ k > best_caption
          /\ Eligible(k)
          /\ DistanceTo(k) = DistanceTo(best_caption)
          /\ captions[k].bbox # captions[best_caption].bbox

(***************************************************************************)
(* Properties of PDFFigures2Python.extract                                 *)
(***************************************************************************)
\* the output records that come from embedded images / from drawing groups
FromImage(r) == r.image.via = "pixmap"
FromDrawings(r) == r.image.via = "render" /\ r.image.of = "drawings"

Records == { results[k] : k \in 1..Len(results) }

\* the vertical gap between element box e and caption box c, 0 when they
\* overlap vertically
VerticalGap(e, c) ==
    IF c.y1 > e.y2 THEN c.y1 - e.y2
    ELSE IF e.y1 > c.y2 THEN e.y1 - c.y2
    ELSE 0

\* caption box c qualifies for element box e: start x within 100, gap under 100
Qualifies(e, c) ==
    /\ (IF c.x1 >= e.x1 THEN c.x1 - e.x1 ELSE e.x1 - c.x1) <= 100
    /\ VerticalGap(e, c) < 100

\* image k of page pg is placed and passes both size tests
LargeIn(pg, k) ==
    /\ pg.images[k].rects # <<>>
    /\ area(pg.images[k].rects[1]) >= 10000
    /\ pg.images[k].pix.width >= 100 /\ pg.images[k].pix.height >= 100

LargeImage(k) == LargeIn(page, k)

\* no caption candidate is matched on page p of the document
UncaptionedPage(p) == find_captions(document.pages[p].blocks) = <<>>

\* image n of page p is placed and passes both size tests
LargeDocImage(p, n) == LargeIn(document.pages[p], n)

\* the output records of page p
RecordsOfPage(p) ==
    { k \in 1..Len(doc_results.figures) : doc_results.figures[k].pageNumber = p }


\* image k of the page is placed, and its placement rectangle is below the
\* area threshold
SmallPlacement(k) ==
    /\ page.images[k].rects # <<>>
    /\ area(page.images[k].rects[1]) < 10000

\* C1: an embedded image whose placement rectangle has an area below 10,000
\* square units is never a record, neither in the list of Figure objects nor in
\* the output, whatever captions lie near it.
C1_SmallImageExcluded ==
    \A k \in 1..Len(page.images) :
        SmallPlacement(k) =>
            /\ \A r \in Records : ~(FromImage(r) /\ r.image.xref = page.images[k].xref)
            /\ \A f \in 1..Len(all_figures) :
                  ~(all_figures[f].image_data.via = "pixmap"
                    /\ all_figures[f].image_data.xref = page.images[k].xref)

\* a 50x50 image with a large pixmap and a caption that qualifies for it
C1_Witness ==
    /\ xpc = "done"
    /\ \E k \in 1..Len(page.images) :
          /\ SmallPlacement(k)
          /\ page.images[k].rects[1] = BoundingBox(100, 100, 150, 150)
          /\ page.images[k].pix.width >= 100
          /\ find_nearest_caption(page.images[k].rects[1], page_captions) # 0
    /\ results # <<>>

FigureWord(tok) == Lower(tok) \in {"figure", "fig", "fig."}
TableWord(tok) == Lower(tok) \in {"table", "tbl", "tbl."}

\* the word after the first word and the whitespace behind it, "" for none
SecondWord(text) ==
    LET w == 2 + blank_run(text, 2)
    IN  IF w = 2 \/ w > Len(text) THEN "" ELSE text[w]

\* the line begins with 'Supplementary' or 'Appendix' and the word given
PrefixedWord(text, word) ==
    /\ Lower(text[1]) \in {"supplementary", "appendix"}
    /\ Lower(SecondWord(text)) = word

\* the caption candidate was recorded with the kind its text begins with
KindAgreesWithText(c) ==
    /\ c.type = "Figure" => FigureWord(c.text[1]) \/ PrefixedWord(c.text, "figure")
    /\ c.type = "Table" => TableWord(c.text[1]) \/ PrefixedWord(c.text, "table")
    /\ c.type = "Figure" => ~TableWord(c.text[1]) /\ ~PrefixedWord(c.text, "table")
    /\ c.type = "Table" => ~FigureWord(c.text[1]) /\ ~PrefixedWord(c.text, "figure")

\* the line begins with a table word resp. a figure word (in any letter case,
\* written out or abbreviated), whitespace and a token that starts with a digit
TableNumbered(text) ==
    Len(text) >= 3 /\ TableWord(text[1]) /\ SecondWord(text) \in {"1", "3", "7", "7.", "7a"}
FigureNumbered(text) ==
    Len(text) >= 3 /\ FigureWord(text[1]) /\ SecondWord(text) \in {"1", "3", "7", "7.", "7a"}

\* the candidates caps recorded for the line of block b
CandidatesOf(blocks, caps, b) ==
    { k \in 1..Len(caps) : /\ caps[k].text = blocks[b].lines[1].text
                           /\ caps[k].bbox = blocks[b].lines[1].bbox }

\* every text line of blocks was recorded in caps with the kind it begins
\* with: a 'Table 7' line as a Table caption, a 'Figure 7' line as a Figure
\* caption, no line as both, and an image block not at all
RecordedByKind(blocks, caps) ==
    /\ \A k \in 1..Len(caps) :
          /\ KindAgreesWithText(caps[k])
          /\ \E b \in 1..Len(blocks) : blocks[b].type = 0 /\ k \in CandidatesOf(blocks, caps, b)
    /\ \A b \in 1..Len(blocks) :
          LET text == blocks[b].lines[1].text
              K == CandidatesOf(blocks, caps, b)
          IN  /\ Cardinality(K)
                    <= Cardinality({b2 \in 1..Len(blocks) :
                                       /\ blocks[b2].type = 0
                                       /\ blocks[b2].lines = blocks[b].lines})
              /\ blocks[b].type = 0 /\ TableNumbered(text) =>
                    K # {} /\ \A k \in K : caps[k].type = "Table"
              /\ blocks[b].type = 0 /\ FigureNumbered(text) =>
                    K # {} /\ \A k \in K : caps[k].type = "Figure"

\* the caption candidate a record took its name and caption from
TakenFrom(r, c) ==
    /\ r.name = Strip(c.match)
    /\ Len(r.caption) >= Len(c.text)
    /\ SubSeq(r.caption, 1, Len(c.text)) = c.text

\* C4 as stated: a 'Table 7' line is recorded only as a Table caption and a
\* 'Figure 7' line only as a Figure caption, and no record that comes from an
\* image or a drawing group carries a Table caption or the type 'table'.
C4_NoTableOnFigureElement ==
    /\ \A k \in 1..Len(page_captions) : KindAgreesWithText(page_captions[k])
    /\ \A k \in 1..Len(cl_captions) : KindAgreesWithText(cl_captions[k])
    /\ \A r \in Records :
          FromImage(r) \/ FromDrawings(r) =>
              /\ r.type # "table"
              /\ \A k \in 1..Len(page_captions) :
                    page_captions[k].type = "Table" => ~TakenFrom(r, page_captions[k])

\* C4 as amended: every line is recorded with the one kind its text begins
\* with (never as both), whatever the letter case, the abbreviation and the
\* whitespace before the number; a record from an image or a drawing group has
\* the type of the caption it took, so it is of type 'table' exactly when
\* that caption is a Table caption, and type and caption never disagree.
C4_TypeFollowsCaption ==
    /\ cl_pc = "done" => RecordedByKind(cl_blocks, cl_captions)
    /\ xpc \notin {"idle", "captions"} => RecordedByKind(page.blocks, page_captions)
    /\ \A r \in Records :
          FromImage(r) \/ FromDrawings(r) =>
              LET c == find_nearest_caption(
                           BoundingBox(r.bbox.x1, r.bbox.y1, r.bbox.x2, r.bbox.y2),
                           page_captions)
              IN  /\ c = 0 => r.type = "figure"
                  /\ c # 0 => /\ r.type = type_lower(page_captions[c].type)
                              /\ TakenFrom(r, page_captions[c])
                  /\ (r.type = "table") <=> (c # 0 /\ page_captions[c].type = "Table")

\* a page with a 'Table 7' line and a 'Figure 7' line, each recorded with its
\* own kind: the image, whose nearest caption is the Table caption, is emitted
\* with type 'table', the drawing group with type 'figure'
C4_Witness ==
    /\ xpc = "done"
    /\ \E k \in 1..Len(page_captions) :
          page_captions[k].type = "Table" /\ page_captions[k].text = <<"Table", SP, "7">>
    /\ \E k \in 1..Len(page_captions) :
          page_captions[k].type = "Figure" /\ page_captions[k].text = <<"Figure", SP, "7">>
    /\ \E r \in Records :
          /\ FromImage(r)
          /\ r.type = "table"
          /\ r.name = <<"Table", SP, "7">>
    /\ \E r \in Records : FromDrawings(r) /\ r.type = "figure"

\* a line that writes the keyword in capitals and abbreviated, with two blanks
\* before the number, recorded as a Table caption
C4_AbbreviatedLine ==
    /\ cl_pc = "done"
    /\ cl_blocks[1].lines[1].text \in {<<"TBL.", SP, SP, "7">>, <<"TBL.", "  ", "7">>}
    /\ Len(cl_captions) = 1 /\ cl_captions[1].type = "Table"

\* the caption the page input determines for image k of page pg, caps being
\* the caption candidates of the page: of the captions that qualify for its
\* placement rectangle those at the least vertical gap, and of these the
\* first in reading order; 0 when no caption qualifies
AssociationIn(pg, caps, k) ==
    LET e == pg.images[k].rects[1]
        Q == { c \in 1..Len(caps) : Qualifies(e, caps[c].bbox) }
        M == { c \in Q : \A d \in Q : VerticalGap(e, caps[c].bbox)
                                          <= VerticalGap(e, caps[d].bbox) }
    IN  IF M = {} THEN 0 ELSE CHOOSE c \in M : \A d \in M : c <= d

ImageAssociation(k) == AssociationIn(page, page_captions, k)

\* images i and j of the page both pass the size tests, and the same caption c
\* is the nearest caption of both, at the same distance
EquidistantIn(pg, caps, i, j, c) ==
    /\ i < j
    /\ LargeIn(pg, i) /\ LargeIn(pg, j)
    /\ AssociationIn(pg, caps, i) = c /\ AssociationIn(pg, caps, j) = c
    /\ VerticalGap(pg.images[i].rects[1], caps[c].bbox)
         = VerticalGap(pg.images[j].rects[1], caps[c].bbox)

EquidistantPair(i, j, c) == EquidistantIn(page, page_captions, i, j, c)

\* the output of the document has a record of image n of page p with the
\* type and name of caption c of that page and a caption that begins with
\* its text
DocCarriesCaption(p, n, c) ==
    LET pg == document.pages[p]
        caps == find_captions(pg.blocks)
    IN  \E k \in RecordsOfPage(p) :
            LET r == doc_results.figures[k]
                t == extract_full_caption(pg, caps[c])
            IN  /\ r.image = [via |-> "pixmap", xref |-> pg.images[n].xref]
                /\ r.type = type_lower(caps[c].type)
                /\ r.name = Strip(caps[c].match)
                /\ Len(r.caption) >= Len(t) /\ SubSeq(r.caption, 1, Len(t)) = t

\* what became of two images of page p equidistant from caption c of the page
PairInDocument(p, i, j, c) ==
    LET pg == document.pages[p]
        caps == find_captions(pg.blocks)
    IN  IF ~is_continuation(extract_full_caption(pg, caps[c]))
        THEN DocCarriesCaption(p, i, c) /\ DocCarriesCaption(p, j, c)
        ELSE /\ \A k \in RecordsOfPage(p) :
                   doc_results.figures[k].image
                       # [via |-> "pixmap", xref |-> pg.images[j].xref]
             /\ \E k \in 1..Len(doc_results.figures) :
                   /\ doc_results.figures[k].pageNumber <= p
                   /\ doc_results.figures[k].name = Strip(caps[c].match)
                   /\ is_continuation(doc_results.figures[k].caption)

CarriesCaption(k, c) ==
    \E r \in Records :
        /\ FromImage(r) /\ r.image.xref = page.images[k].xref
        /\ TakenFrom(r, page_captions[c])

\* the Figure objects _extract_images made of image k
ImageFigures(k) ==
    { f \in 1..Len(all_figures) :
        all_figures[f].image_data = [via |-> "pixmap", xref |-> page.images[k].xref] }

\* Figure object f carries the type, the name and the text of caption c
FigureCarries(f, c) ==
    /\ all_figures[f].figure_type = page_captions[c].type
    /\ all_figures[f].name = Strip(page_captions[c].match)
    /\ all_figures[f].caption = extract_full_caption(page, page_captions[c])

C6_BBoxUnscaled ==
    xpc = "done" =>
        /\ Len(results) = Len(all_figures)
        /\ \A k \in 1..Len(results) :
              LET r == results[k]
                  e == IF FromImage(r)
                       THEN page.images[CHOOSE i \in 1..Len(page.images) :
                                page.images[i].xref = r.image.xref].rects[1]
                       ELSE r.image.clip
              IN  /\ r.bbox.x1 = e.x1 /\ r.bbox.y1 = e.y1
                  /\ r.bbox.x2 = e.x2 /\ r.bbox.y2 = e.y2
                  /\ r.bbox.width = r.bbox.x2 - r.bbox.x1
                  /\ r.bbox.height = r.bbox.y2 - r.bbox.y1
                  /\ r.bbox.x1 = all_figures[k].bbox.x1
                  /\ r.bbox.y2 = all_figures[k].bbox.y2

\* an image record, a table record and a drawing record were written
C6_Witness ==
    /\ xpc = "done"
    /\ \E r \in Records : FromImage(r) /\ r.bbox.width = 200
    /\ \E r \in Records : r.image.via = "render" /\ r.image.of = "table"
                          /\ r.image.zoom = 2
    /\ \E r \in Records : FromDrawings(r) /\ r.bbox.x1 = 110

(***************************************************************************)
(* Properties of PyMuPDFExtractor.extract                                  *)
(***************************************************************************)
\* the rectangle of the element a record of pymupdf-extractor was made for
PmElementRect(r) ==
    IF r.source = "pymupdf"
    THEN pm_page.images[CHOOSE i \in 1..Len(pm_page.images) :
                           pm_page.images[i].xref = r.image.xref].bbox
    ELSE [x1 |-> r.image.clip.x1 \div 2, y1 |-> r.image.clip.y1 \div 2,
          x2 |-> r.image.clip.x2 \div 2, y2 |-> r.image.clip.y2 \div 2]

\* pymupdf-extractor: the bbox of every output record is the rectangle of
\* the image or drawing in page coordinates, while the crop of a drawing is
\* taken at twice those coordinates; width and height are x2 - x1 and y2 - y1.
C6_PmBBoxUnscaled ==
    \A k \in 1..Len(pm_results) :
        LET r == pm_results[k]
            e == PmElementRect(r)
        IN  /\ r.bbox.x1 = e.x1 /\ r.bbox.y1 = e.y1
            /\ r.bbox.x2 = e.x2 /\ r.bbox.y2 = e.y2
            /\ r.bbox.width = r.bbox.x2 - r.bbox.x1
            /\ r.bbox.height = r.bbox.y2 - r.bbox.y1
            /\ r.source = "pymupdf_drawing" =>
                  \E d \in 1..Len(pm_page.drawings) :
                      e = (IF pm_page.drawings[d].rect = NoRect THEN pm_page.rect
                           ELSE pm_page.drawings[d].rect)

\* an image record and a drawing record were written
C6_PmWitness ==
    /\ pm_pc = "done"
    /\ \E k \in 1..Len(pm_results) :
          pm_results[k].source = "pymupdf" /\ pm_results[k].bbox.width = 200
    /\ \E k \in 1..Len(pm_results) :
          /\ pm_results[k].source = "pymupdf_drawing"
          /\ pm_results[k].image.clip.x2 = 500
          /\ pm_results[k].bbox.x2 = 250

\* C6: in both extractors the bbox of every record written to the output holds
\* the page coordinates of the element's box as computed during extraction,
\* not multiplied by the 2x rendering scale, with width = x2 - x1 and
\* height = y2 - y1.
C6_BBoxRoundTrip == C6_BBoxUnscaled /\ C6_PmBBoxUnscaled

(***************************************************************************)
(* Properties of the command-line entry points                             *)
(***************************************************************************)
\* C7: when a script has ended, its exit code is 1 if the result it printed
\* reports failure (success = false) and 0 if it reports success.
C7_ExitCodeFollowsResult ==
    cpc = "exit" =>
        \A k \in 1..Len(stdout) :
            /\ stdout[k].success = "false" => exit_code = 1
            /\ stdout[k].success = "true" => exit_code = 0

\* C8: when the top-level operation of a script raised an exception, the
\* script has printed a JSON object with success = false whose error string is
\* the message of the exception.
C8_ExceptionReported ==
    cpc = "exit" /\ args_ok /\ outcome.kind \in {"raise", "raise_init"} =>
        \E k \in 1..Len(stdout) : stdout[k] = Failed(<<outcome.msg>>)

(***************************************************************************)
(* Properties of the PDF fetcher                                           *)
(***************************************************************************)
FailedAttempt(k) == attempts[k].outcome # "success"

AllFailedReport ==
    [success |-> "false", error |-> "All Python fallback sources failed",
     pdf_base64 |-> FALSE]

\* every failed call was followed by the call of the next source, or was the
\* call of the ninth source
FailuresFallThrough ==
    \A k \in 1..Len(attempts) :
        FailedAttempt(k) =>
            \/ k < Len(attempts) /\ attempts[k + 1].source = sources[k + 1]
            \/ k = Len(attempts) /\ fpc = "loop"
            \/ k = 9 /\ fpc = "exit"

\* C9 as stated: every per-source failure is passed over and the next source
\* tried; a failure is reported only after all nine sources failed, and it is
\* the one error 'All Python fallback sources failed'.
C9_OnlyTotalFailureReported ==
    /\ FailuresFallThrough
    /\ \A k \in 1..Len(f_stdout) :
          f_stdout[k].success = "false" =>
              /\ f_stdout[k] = AllFailedReport
              /\ Len(attempts) = 9
              /\ \A a \in 1..9 : FailedAttempt(a)

\* C9 as amended: when a DOI is given, every per-source failure is passed over
\* and the next source tried, and the only failure reported is 'All Python
\* fallback sources failed', after all nine sources failed; without a DOI main
\* reports 'No DOI provided' with exit code 1 and tries no source.
C9_FailureReports ==
    /\ FailuresFallThrough
    /\ has_doi =>
          /\ \A k \in 1..Len(f_stdout) :
                f_stdout[k].success = "false" =>
                    /\ f_stdout[k] = AllFailedReport
                    /\ Len(attempts) = 9
                    /\ \A a \in 1..9 : FailedAttempt(a)
          /\ fpc = "exit" /\ (\A a \in 1..Len(attempts) : FailedAttempt(a)) =>
                f_stdout = <<AllFailedReport>> /\ f_exit = 1
    /\ ~has_doi /\ fpc = "exit" =>
          /\ attempts = <<>>
          /\ Len(f_stdout) = 1 /\ f_stdout[1].error = "No DOI provided"
          /\ f_exit = 1

\* nine failures of all three kinds, then the one report
C9_Witness ==
    /\ fpc = "exit" /\ has_doi
    /\ Len(attempts) = 9
    /\ \E a, b, c \in 1..9 : /\ attempts[a].outcome = "raise"
                             /\ attempts[b].outcome = "none"
                             /\ attempts[c].outcome = "unsuccessful"
    /\ f_stdout = <<AllFailedReport>>

\* C10: the sources are called in the order of the list, each at most once:
\* the k-th call is the call of source k, made only after the calls of all
\* sources before it failed, and no call follows a successful one.
C10_SourcesInOrder ==
    /\ Len(attempts) <= Len(sources)
    /\ \A k \in 1..Len(attempts) :
          /\ attempts[k].source = sources[k]
          /\ \A j \in 1..(k - 1) : FailedAttempt(j)
          /\ \A j \in 1..Len(attempts) :
                j # k => attempts[j].source # attempts[k].source
    /\ \A k \in 1..Len(attempts) :
          ~FailedAttempt(k) => k = Len(attempts) /\ fpc = "exit" /\ f_exit = 0

\* the third source succeeded after two failures
C10_Witness ==
    /\ fpc = "exit"
    /\ Len(attempts) = 3
    /\ attempts[1].outcome = "raise"
    /\ attempts[2].outcome = "none"
    /\ attempts[3] = [source |-> "PubMed Central", outcome |-> "success"]
    /\ f_exit = 0

(***************************************************************************)
(* Pages without captions                                                  *)
(***************************************************************************)
\* a later page q yields a Figure object named as r whose caption holds a
\* continuation word, and the caption of r is a blank and then that caption
MergedInto(r, p) ==
    \E q \in (p + 1)..Len(document.pages) :
        LET figs == extract_from_page(document.pages[q], q - 1)
        IN  \E f \in 1..Len(figs) :
                /\ figs[f].name = r.name
                /\ is_continuation(figs[f].caption)
                /\ Len(r.caption) >= 1 + Len(figs[f].caption)
                /\ SubSeq(r.caption, 1, 1 + Len(figs[f].caption))
                      = <<SP>> \o figs[f].caption

\* C11 as stated: a page on which no caption candidate is matched contributes
\* no record to the output.
C11_NoCaptionNoRecord ==
    dpc = "return" /\ doc_results.success =>
        \A p \in 1..Len(document.pages) : UncaptionedPage(p) => RecordsOfPage(p) = {}

\* C11 as amended: in a successful extraction a page on which no caption
\* candidate is matched contributes no table record and no drawing record; it
\* contributes exactly one record for every embedded image that passes the
\* size tests, of type 'figure', named 'Figure <n>' after the image's
\* position on the page.  The caption of that record is empty, unless a later
\* page yields a record of the same name whose caption holds a continuation
\* word and the merge has appended it: then the caption is a blank followed by
\* that caption.
C11_OnlyUncaptionedImages ==
    dpc = "return" /\ doc_results.success =>
        \A p \in 1..Len(document.pages) :
            UncaptionedPage(p) =>
                /\ \A k \in RecordsOfPage(p) :
                      LET r == doc_results.figures[k]
                      IN  /\ r.type = "figure" /\ r.image.via = "pixmap"
                          /\ \E n \in 1..Len(document.pages[p].images) :
                                /\ LargeDocImage(p, n)
                                /\ r.image.xref = document.pages[p].images[n].xref
                                /\ r.name = <<"Figure", SP, NumStr(n)>>
                          /\ r.caption = <<>> \/ MergedInto(r, p)
                /\ \A n \in 1..Len(document.pages[p].images) :
                      LargeDocImage(p, n) =>
                          Cardinality({ k \in RecordsOfPage(p) :
                              doc_results.figures[k].image.xref
                                  = document.pages[p].images[n].xref }) = 1
                /\ Cardinality(RecordsOfPage(p))
                      = Cardinality({ n \in 1..Len(document.pages[p].images) :
                                         LargeDocImage(p, n) })
                /\ (\A q \in (p + 1)..Len(document.pages) :
                        \A f \in 1..Len(extract_from_page(document.pages[q], q - 1)) :
                            ~is_continuation(
                                 extract_from_page(document.pages[q], q - 1)[f].caption))
                      => \A k \in RecordsOfPage(p) : doc_results.figures[k].caption = <<>>

\* a document of three pages without a raise: the first has a large image and
\* no caption, and its record 'Figure 1' has taken the caption of the image of
\* the second page, 'Figure 1 (continued)'; the third has text and drawings
\* but no caption, a small image and a large one, whose record 'Figure 2' has
\* an empty caption
C11_Witness ==
    /\ dpc = "return" /\ doc_results.success
    /\ Len(document.pages) = 3
    /\ UncaptionedPage(1) /\ ~UncaptionedPage(2) /\ UncaptionedPage(3)
    /\ Len(doc_results.figures) = 2
    /\ doc_results.figures[1].pageNumber = 1
    /\ doc_results.figures[1].name = <<"Figure", SP, "1">>
    /\ doc_results.figures[1].caption = <<SP, "Figure", SP, "1", SP, "(continued)">>
    /\ document.pages[3].blocks # <<>> /\ Len(document.pages[3].drawings) >= 5
    /\ doc_results.figures[2].pageNumber = 3
    /\ doc_results.figures[2].name = <<"Figure", SP, "2">>
    /\ doc_results.figures[2].caption = <<>>

(***************************************************************************)
(* Failure of PDFFigures2Python.extract                                    *)
(***************************************************************************)
\* an exception occurs while the document is opened or on one of its pages
DocumentRaises ==
    \/ document.open_raises
    \/ \E p \in 1..Len(document.pages) : document.pages[p].raises

\* C12: when an exception occurs on a page (or on opening the document), the
\* result returned has success = false, an error string and an empty figures
\* list, also when earlier pages had yielded records; when success = true the
\* error is None.
C12_WholeDocumentFailure ==
    dpc = "return" =>
        /\ DocumentRaises =>
              /\ doc_results.success = FALSE
              /\ doc_results.error # None
              /\ doc_results.figures = <<>>
        /\ doc_results.success = TRUE => doc_results.error = None /\ ~DocumentRaises

\* the second page raised after the first page had yielded a record
C12_Witness ==
    /\ dpc = "return"
    /\ doc_page_num = 1 /\ document.pages[2].raises
    /\ doc_figures # <<>>
    /\ doc_results.success = FALSE /\ doc_results.figures = <<>>

(***************************************************************************)
(* The life of a Figure object                                             *)
(***************************************************************************)
\* two Figure objects that agree on everything but the caption
SameButCaption(f, g) ==
    /\ f.figure_type = g.figure_type /\ f.name = g.name /\ f.page = g.page
    /\ f.bbox = g.bbox /\ f.image_data = g.image_data

\* cap followed by the captions of the records S of figs, each after one blank
RECURSIVE AppendAll(_, _, _)
AppendAll(cap, figs, S) ==
    IF S = {} THEN cap
    ELSE LET j == CHOOSE x \in S : \A y \in S : x <= y
         IN  AppendAll(cap \o <<SP>> \o figs[j].caption, figs, S \ {j})

\* the captions record i of figs can end up with: its own, followed by the
\* captions of zero or more later continuation records
Extended(figs, i) ==
    { AppendAll(figs[i].caption, figs, S) :
        S \in SUBSET { j \in (i + 1)..Len(figs) : is_continuation(figs[j].caption) } }

\* C13: a Figure object does not change after it was created, except that the
\* merge appends continuation captions to its caption: the page passes only add
\* objects, the merge keeps type, name, page, box and image of every object it
\* returns and extends its caption by the captions of later continuation
\* records, and the conversion writes those values to the output unchanged
\* (the type in lower case, the page as page + 1).
C13_OnlyCaptionAppended ==
    [][ /\ xpc \in {"images", "tables", "vector"} =>
              /\ Len(all_figures') >= Len(all_figures)
              /\ SubSeq(all_figures', 1, Len(all_figures)) = all_figures
        /\ xpc = "merge" =>
              \A k \in 1..Len(all_figures') :
                  \E i \in 1..Len(all_figures) :
                      /\ SameButCaption(all_figures'[k], all_figures[i])
                      /\ all_figures'[k].caption \in Extended(all_figures, i)
        /\ xpc = "convert" =>
              /\ all_figures' = all_figures
              /\ Len(results') = Len(all_figures)
              /\ \A k \in 1..Len(all_figures) :
                    LET f == all_figures[k]
                        r == results'[k]
                    IN  /\ r.type = (IF f.figure_type = "Figure" THEN "figure" ELSE "table")
                        /\ r.name = f.name /\ r.pageNumber = f.page + 1
                        /\ r.caption = f.caption /\ r.image = f.image_data
                        /\ r.bbox.x1 = f.bbox.x1 /\ r.bbox.y1 = f.bbox.y1
                        /\ r.bbox.x2 = f.bbox.x2 /\ r.bbox.y2 = f.bbox.y2
      ]_vars

\* an image record whose caption was extended by a continuation caption
C13_Witness ==
    /\ xpc = "done"
    /\ \E r \in Records :
          /\ FromImage(r)
          /\ r.caption = <<"Table", SP, "7", SP, "Table", SP, "7", SP, "(continued)">>
    /\ Len(results) < Len(page.images) + Len(page_captions)

Contains(hay, needle) ==
    \E s \in 0..(Len(hay) - Len(needle)) : SubSeq(hay, s + 1, s + Len(needle)) = needle

\* C15: when the merge has ended, the caption of every record dropped as a
\* continuation is contained in the caption of a record of the output.
C15_NoContinuationTextLost ==
    mpc = "done" =>
        \A i \in skip_indices :
            \E k \in 1..Len(merged) :
                Contains(figures[merged[k]].caption, figures0[i].caption)

(***************************************************************************)
(* The region of a table                                                   *)
(***************************************************************************)
\* the text blocks of the page lying entirely inside the search rectangle of
\* caption c: from 50 left of it to 200 right of it, from its bottom edge to
\* 500 below
BlocksBelow(c) ==
    { b \in 1..Len(page.blocks) :
        /\ page.blocks[b].type = 0
        /\ page.blocks[b].bbox.x1 >= c.bbox.x1 - 50
        /\ page.blocks[b].bbox.y1 >= c.bbox.y2
        /\ page.blocks[b].bbox.x2 <= c.bbox.x2 + 200
        /\ page.blocks[b].bbox.y2 <= c.bbox.y2 + 500 }

\* the union bounding box of the blocks B of the page
UnionOfBlocks(B) ==
    [x1 |-> CHOOSE v \in {page.blocks[b].bbox.x1 : b \in B} :
                \A b \in B : v <= page.blocks[b].bbox.x1,
     y1 |-> CHOOSE v \in {page.blocks[b].bbox.y1 : b \in B} :
                \A b \in B : v <= page.blocks[b].bbox.y1,
     x2 |-> CHOOSE v \in {page.blocks[b].bbox.x2 : b \in B} :
                \A b \in B : v >= page.blocks[b].bbox.x2,
     y2 |-> CHOOSE v \in {page.blocks[b].bbox.y2 : b \in B} :
                \A b \in B : v >= page.blocks[b].bbox.y2]

\* C16: after the table pass, for every Table caption with at least one text
\* block inside its search rectangle there is a table record named after the
\* caption whose bounding box is the union bounding box of those blocks.
C16_TableBoxIsUnion ==
    xpc = "vector" =>
        \A k \in 1..Len(page_captions) :
            LET c == page_captions[k]
            IN  c.type = "Table" /\ BlocksBelow(c) # {} =>
                    \E f \in 1..Len(all_figures) :
                        /\ all_figures[f].image_data.via = "render"
                        /\ all_figures[f].image_data.of = "table"
                        /\ all_figures[f].name = Strip(c.match)
                        /\ all_figures[f].bbox = UnionOfBlocks(BlocksBelow(c))

(***************************************************************************)
(* The caption-matching rule                                               *)
(***************************************************************************)
\* C17: _find_nearest_caption returns a caption only if it qualifies (start x
\* within 100 units of the element's, vertical gap under 100 units) and returns
\* None exactly when no caption qualifies; an image that passes the size tests
\* and has no qualifying caption is emitted by _extract_images as a record of
\* type 'Figure' with an empty caption.
C17_CaptionRule ==
    /\ npc = "done" =>
          /\ best_caption # 0 => Qualifies(figure_bbox, captions[best_caption].bbox)
          /\ best_caption = 0 <=>
                \A k \in 1..Len(captions) : ~Qualifies(figure_bbox, captions[k].bbox)
    /\ xpc = "tables" =>
          \A k \in 1..Len(page.images) :
              /\ LargeImage(k)
              /\ \A c \in 1..Len(page_captions) :
                    ~Qualifies(page.images[k].rects[1], page_captions[c].bbox)
              => \E f \in 1..Len(all_figures) :
                    /\ all_figures[f].image_data = [via |-> "pixmap",
                                                    xref |-> page.images[k].xref]
                    /\ all_figures[f].figure_type = "Figure"
                    /\ all_figures[f].caption = <<>>

\* a page with captions of which none qualifies for its large image
C17_Witness ==
    /\ xpc = "tables"
    /\ page_captions # <<>>
    /\ \E k \in 1..Len(page.images) :
          /\ LargeImage(k)
          /\ \A c \in 1..Len(page_captions) :
                ~Qualifies(page.images[k].rects[1], page_captions[c].bbox)
          /\ \E c \in 1..Len(page_captions) :
                VerticalGap(page.images[k].rects[1], page_captions[c].bbox) >= 100
    /\ \E f \in 1..Len(all_figures) : all_figures[f].caption = <<>>

(***************************************************************************)
(* Vector-drawing clusters                                                 *)
(***************************************************************************)
\* the union of the rectangles of the paths g (indices into the page's drawings)
UnionOfPaths(g) ==
    LET R == { page.drawings[g[k]].rect : k \in 1..Len(g) }
    IN  [x1 |-> CHOOSE v \in {r.x1 : r \in R} : \A r \in R : v <= r.x1,
         y1 |-> CHOOSE v \in {r.y1 : r \in R} : \A r \in R : v <= r.y1,
         x2 |-> CHOOSE v \in {r.x2 : r \in R} : \A r \in R : v >= r.x2,
         y2 |-> CHOOSE v \in {r.y2 : r \in R} : \A r \in R : v >= r.y2]

\* the clusters of the page's paths, as _group_drawings returns them
PageClusters ==
    LET gs == group_drawings(page.drawings)
    IN  { gs[k] : k \in 1..Len(gs) }

\* the cluster g passes: 5 paths or more, area 10,000 or more, and a caption
\* that qualifies for its union box
ClusterPasses(g) ==
    /\ Len(g) >= 5
    /\ (UnionOfPaths(g).x2 - UnionOfPaths(g).x1)
         * (UnionOfPaths(g).y2 - UnionOfPaths(g).y1) >= 10000
    /\ \E c \in 1..Len(page_captions) : Qualifies(UnionOfPaths(g), page_captions[c].bbox)

VectorFigures ==
    { f \in 1..Len(all_figures) :
        all_figures[f].image_data.via = "render"
        /\ all_figures[f].image_data.of = "drawings" }

\* C18: after the vector pass, no record stands for a cluster with fewer than 5
\* paths, with a union box of area under 10,000 or without a qualifying
\* caption, and the box of every vector record is the union of the rectangles
\* of the paths of a cluster that passes.
C18_VectorClusters ==
    xpc = "merge" =>
        /\ \A f \in VectorFigures :
              \E g \in PageClusters :
                  ClusterPasses(g) /\ all_figures[f].bbox = UnionOfPaths(g)
        /\ \A g \in PageClusters :
              ~ClusterPasses(g) =>
                  \A f \in VectorFigures : all_figures[f].bbox # UnionOfPaths(g)
        /\ Cardinality(VectorFigures) <= Cardinality(PageClusters)

\* a cluster of five paths with a caption 10 units above it was emitted
C18_Witness ==
    /\ xpc = "merge"
    /\ Len(page.drawings) = 5
    /\ \E f \in VectorFigures : all_figures[f].bbox = BoundingBox(110, 330, 300, 520)

(***************************************************************************)
(* Groups of drawings                                                      *)
(***************************************************************************)
\* the rectangles a and b start less than 200 apart in x and in y
Within200(a, b) ==
    /\ (a.x1 - b.x1 < 200 /\ b.x1 - a.x1 < 200)
    /\ (a.y1 - b.y1 < 200 /\ b.y1 - a.y1 < 200)

GroupRect(g, k) == g_drawings[g_groups[g][k]].rect

\* C19 as stated: in every group returned, any two member paths have
\* rectangles within 200 units of each other.
C19_PairwiseWithin200 ==
    gpc = "done" =>
        \A g \in 1..Len(g_groups) :
            \A a, b \in 1..Len(g_groups[g]) :
                Within200(GroupRect(g, a), GroupRect(g, b))

\* C19: in every group returned, every member path has a rectangle, and it is
\* within 200 units (in x0 and in y0) of the rectangle of the group's first
\* path; no path is in two groups.
C19_WithinSeed200 ==
    gpc = "done" =>
        /\ \A g \in 1..Len(g_groups) :
              /\ Len(g_groups[g]) >= 1
              /\ \A k \in 1..Len(g_groups[g]) :
                    /\ GroupRect(g, k) # NoRect
                    /\ Within200(GroupRect(g, 1), GroupRect(g, k))
        /\ \A g, h \in 1..Len(g_groups) :
              \A a \in 1..Len(g_groups[g]), b \in 1..Len(g_groups[h]) :
                  g_groups[g][a] = g_groups[h][b] => g = h /\ a = b

\* a group of three whose second and third path are 380 apart, next to a path
\* 200 below the first that was left out
C19_Witness ==
    /\ gpc = "done"
    /\ Len(g_groups) = 2
    /\ Len(g_groups[1]) = 3
    /\ GroupRect(1, 2).x1 = 10 /\ GroupRect(1, 3).x1 = 390
    /\ GroupRect(2, 1).y1 = 530

(***************************************************************************)
(* The direction of a merge                                                *)
(***************************************************************************)
\* the earlier records whose name is the base name of record i
Originals(i) ==
    { j \in 1..(i - 1) : figures[j].name = base_name(figures[i].name) }

\* C20: a step of the merge loop changes a record only when the record at hand
\* is a continuation with an earlier record named by its base name; it then
\* appends the continuation caption to the one of those with the highest index
\* and drops the continuation, and changes no other record, so never a later
\* record and never one with a different name.  A continuation with such an
\* earlier record is always merged.
C20_BackwardNearest ==
    [][ (mpc = "loop" /\ mi' = mi + 1) =>
          IF mi \notin skip_indices /\ is_continuation(figures[mi].caption)
             /\ Originals(mi) # {}
          THEN LET j == CHOOSE k \in Originals(mi) : \A l \in Originals(mi) : l <= k
               IN  /\ figures' = [figures EXCEPT ![j].caption =
                                    figures[j].caption \o <<SP>> \o figures[mi].caption]
                   /\ skip_indices' = skip_indices \cup {mi}
                   /\ merged' = merged
          ELSE figures' = figures ]_vars

\* two records of the same name came before a continuation, and one named
\* differently after the nearer one; the nearer one got the caption
C20_Witness ==
    /\ mpc = "done"
    /\ Len(figures0) = 3
    /\ figures0[1].name = figures0[2].name
    /\ figures0[3].name # figures0[2].name
    /\ base_name(figures0[3].name) = figures0[2].name
    /\ figures[1] = figures0[1]
    /\ figures[2].caption = figures0[2].caption \o <<SP>> \o figures0[3].caption
    /\ merged = <<1, 2>>

(***************************************************************************)
(* What the merge returns                                                  *)
(***************************************************************************)
\* record i of the input is a continuation with no earlier record named by
\* its base name
Orphan(i) ==
    /\ is_continuation(figures0[i].caption)
    /\ \A j \in 1..(i - 1) : figures0[j].name # base_name(figures0[i].name)

\* the later continuation records whose nearest earlier record of their base
\* name is record i
Followers(i) ==
    { k \in (i + 1)..Len(figures0) :
        /\ is_continuation(figures0[k].caption)
        /\ figures0[i].name = base_name(figures0[k].name)
        /\ \A j \in (i + 1)..(k - 1) : figures0[j].name # base_name(figures0[k].name) }

\* merged lists indices of the input in increasing order
OrderPreserved ==
    /\ \A k \in 1..Len(merged) : merged[k] \in 1..Len(figures0)
    /\ \A k \in 1..(Len(merged) - 1) : merged[k] < merged[k + 1]

Returned(i) == \E k \in 1..Len(merged) : merged[k] = i

\* C21 as stated: the output is an order-preserving subsequence of the input,
\* every record without a continuation word is kept, and a continuation record
\* with no earlier record of its base name is kept with its caption unchanged.
C21_OrphanUnchanged ==
    mpc = "done" =>
        /\ OrderPreserved
        /\ \A i \in 1..Len(figures0) :
              /\ ~is_continuation(figures0[i].caption) => Returned(i)
              /\ Orphan(i) => Returned(i) /\ figures[i].caption = figures0[i].caption

\* C21: the output is an order-preserving subsequence of the input; a record
\* is kept exactly when its caption has no continuation word or no earlier
\* record is named by its base name; type and name of every record stay, and
\* its caption is its own followed by the captions of the later continuation
\* records merged into it, so a kept continuation record keeps its caption
\* only when no later continuation is merged into it.
C21_OrderPreservingSubsequence ==
    mpc = "done" =>
        /\ OrderPreserved
        /\ Len(figures) = Len(figures0)
        /\ \A i \in 1..Len(figures0) :
              /\ Returned(i) <=> (~is_continuation(figures0[i].caption) \/ Orphan(i))
              /\ figures[i].figure_type = figures0[i].figure_type
              /\ figures[i].name = figures0[i].name
              /\ figures[i].caption =
                    AppendAll(figures0[i].caption, figures0, Followers(i))

\* a continuation record came first and was kept, a second continuation of
\* the same name was merged into it, and a record after them was kept
C21_Witness ==
    /\ mpc = "done"
    /\ Len(figures0) = 3
    /\ Orphan(1) /\ Followers(1) = {2}
    /\ ~is_continuation(figures0[3].caption)
    /\ merged = <<1, 3>>
    /\ figures[1].caption = figures0[1].caption \o <<SP>> \o figures0[2].caption

(***************************************************************************)
(* The temporary directory of PDFFigures2Extractor.extract                 *)
(***************************************************************************)
\* C22: when extract has returned or raised, the temporary directory it
\* created does not exist any more, and a directory supplied by the caller,
\* once created, is never removed.
C22_TempDirReleased ==
    /\ pf_pc \in {"returned", "raised"} => TmpDir \notin pf_dirs
    /\ (pf_given # None /\ pf_pc \in {"paths", "run", "parse", "build", "finally",
                                      "returned"})
          => pf_given[1] \in pf_dirs

LineY(i) ==
    pm_page.text_y
      + PmLineGap * Cardinality({ j \in 1..(i - 1) : pm_page.text[j] = NL })

\* the keyword matches of the patterns pats that stand within 50 units of the
\* bottom edge of the image: their texts
MatchesNear(img, pats) ==
    { pm_match_at(pm_page.text, i, pats[p]) :
        i \in { i \in 1..Len(pm_page.text) :
                  LineY(i) - img.bbox.y2 < 50 /\ img.bbox.y2 - LineY(i) < 50 },
        p \in 1..Len(pats) } \ { <<>> }

SomeSourceSucceeded == \E k \in 1..Len(attempts) : attempts[k].outcome = "success"

\* what a run with a DOI has printed and how it ended
OneReport ==
    /\ Len(f_stdout) <= 1
    /\ (has_doi /\ fpc # "exit") => f_stdout = <<>> /\ ~SomeSourceSucceeded
    /\ (has_doi /\ fpc = "exit") =>
          /\ Len(f_stdout) = 1
          /\ IF SomeSourceSucceeded
             THEN f_stdout[1].success = "true" /\ f_exit = 0
             ELSE f_stdout[1].success = "false" /\ f_exit = 1

\* C25: every run of main with a DOI argument ends, having printed exactly one
\* JSON object: success = true with exit code 0 if and only if some source
\* returned a successful result, otherwise success = false with exit code 1;
\* nothing is printed after a success report.
C25_TerminatesWithOneReport ==
    /\ []OneReport
    /\ (has_doi /\ fpc = "args") ~> (fpc = "exit")

\* eight sources failed and the ninth succeeded: one success report, exit code 0
C25_Witness ==
    /\ fpc = "exit" /\ has_doi
    /\ Len(attempts) = 9
    /\ \A k \in 1..8 : attempts[k].outcome # "success"
    /\ attempts[9].outcome = "success"
    /\ Len(f_stdout) = 1 /\ f_stdout[1].success = "true"
    /\ f_exit = 0

(***************************************************************************)
(* The order of the records PDFFigures2Python.extract returns              *)
(***************************************************************************)
\* 1 for a record made from a raster image, 2 for one made from a table
\* region, 3 for one made from a cluster of paths
PassOf(r) ==
    IF r.image.via = "pixmap" THEN 1
    ELSE IF r.image.of = "table" THEN 2 ELSE 3

\* the record r stands for an element found on the page numbered r.pageNumber
FromItsPage(r) ==
    LET n == r.pageNumber
        figs == extract_from_page(document.pages[n], n - 1)
    IN  \E k \in 1..Len(figs) :
            /\ r.bbox = output_bbox(figs[k].bbox) /\ r.image = figs[k].image_data
            /\ r.name = figs[k].name

\* C26: the figures returned are in nondecreasing pageNumber order; every
\* pageNumber is the 0-based index of the page the element was found on plus 1
\* and lies in 1..page count; every type is 'figure' or 'table'; within one
\* page the records from raster images come before those from table regions,
\* which come before those from vector clusters.
C26_PageOrder ==
    dpc = "return" =>
        LET F == doc_results.figures
        IN  /\ \A k \in 1..Len(F) :
                  /\ F[k].pageNumber \in 1..Len(document.pages)
                  /\ FromItsPage(F[k])
                  /\ F[k].type \in {"figure", "table"}
            /\ \A j, k \in 1..Len(F) :
                  j < k =>
                      /\ F[j].pageNumber <= F[k].pageNumber
                      /\ F[j].pageNumber = F[k].pageNumber => PassOf(F[j]) <= PassOf(F[k])

\* a document whose second page gave an image record, a table record and a
\* vector record, after a record of its first page
C26_Witness ==
    /\ dpc = "return"
    /\ Len(document.pages) >= 2
    /\ Len(doc_results.figures) = 4
    /\ [k \in 1..4 |-> doc_results.figures[k].pageNumber] = <<1, 2, 2, 2>>
    /\ [k \in 1..4 |-> PassOf(doc_results.figures[k])] = <<1, 1, 2, 3>>

(***************************************************************************)
(* The groups as a partition                                               *)
(***************************************************************************)
\* the places (group, position) at which drawing i stands in the groups
PlacesOf(i) ==
    { p \in (1..Len(g_groups)) \X (1..Len(g_drawings)) :
        p[2] <= Len(g_groups[p[1]]) /\ g_groups[p[1]][p[2]] = i }

\* C27: the groups returned are a partition of the drawings that have a
\* rectangle: such a drawing stands at exactly one place of exactly one group,
\* a drawing without a rectangle stands in no group, and no group is empty.
C27_GroupsPartition ==
    gpc = "done" =>
        /\ \A i \in 1..Len(g_drawings) :
              Cardinality(PlacesOf(i)) = (IF g_drawings[i].rect # NoRect THEN 1 ELSE 0)
        /\ \A g \in 1..Len(g_groups) :
              /\ Len(g_groups[g]) >= 1
              /\ \A k \in 1..Len(g_groups[g]) : g_groups[g][k] \in 1..Len(g_drawings)

\* four drawings, the first without a rectangle, the others in two groups: the
\* fourth is near the third, which the group of the second had taken already
C27_Witness ==
    /\ gpc = "done"
    /\ Len(g_drawings) = 4
    /\ g_drawings[1].rect = NoRect
    /\ g_groups = << <<2, 3>>, <<4>> >>
    /\ close_enough(g_drawings[4].rect, g_drawings[3].rect)

(***************************************************************************)
(* File names                                                              *)
(***************************************************************************)
\* C28: for every input, sanitize_for_filename returns a string of at most
\* 200 characters that has none of the characters < > : " / \ | ? * and does
\* not end with a dot or a blank.
C28_FilenameSafe ==
    san_pc \notin {"idle", "load"} =>
        /\ san_pc = "returned"
        /\ Len(san_out) <= 200
        /\ \A k \in 1..Len(san_out) :
              san_out[k] \notin {"<", ">", ":", "\"", "/", "\\", "|", "?", "*"}
        /\ san_out # <<>> => san_out[Len(san_out)] \notin {".", " "}

(***************************************************************************)
(* The table extract_table_from_position returns                           *)
(***************************************************************************)
\* the cells of line n (0-based) of the input
CellsOf(n) == tab_split(tab_strip(tab_lines[n + 1]), <<>>)

\* line n (0-based) of the input exists and is a data row: not blank, not a
\* heading and, in fixed_numbering_formatter.py, without a box rule
DataRow(n) ==
    /\ n < Len(tab_lines)
    /\ ~tab_stops(tab_file, tab_strip(tab_lines[n + 1]))

\* C29: the function returns None or a table with two headers or more and one
\* row or more, every row with as many cells as there are headers: the cells
\* of its line, followed by empty strings when they are fewer and cut off when
\* they are more.  It returns None exactly when the header line has fewer than two
\* columns or no data row follows the separator line.
C29_TableShape ==
    tab_pc = "done" =>
        /\ tab_out # None =>
              LET t == tab_out[1]
              IN  /\ Len(t.headers) >= 2 /\ t.headers = CellsOf(tab_start)
                  /\ Len(t.rows) >= 1
                  /\ \A r \in 1..Len(t.rows) :
                        LET cells == CellsOf(tab_start + 1 + r)
                        IN  /\ Len(t.rows[r]) = Len(t.headers)
                            /\ \A k \in 1..Len(t.headers) :
                                  t.rows[r][k] = (IF k <= Len(cells) THEN cells[k]
                                                  ELSE <<>>)
        /\ (Len(CellsOf(tab_start)) < 2 \/ ~DataRow(tab_start + 2)) <=> tab_out = None

\* a table of two headers with a short row that was filled up and a long row
\* that was cut
C29_Witness ==
    /\ tab_pc = "done"
    /\ tab_out # None
    /\ Len(tab_out[1].headers) = 2
    /\ Len(tab_out[1].rows) = 2
    /\ tab_out[1].rows[1] = << <<"a">>, <<>> >>
    /\ Len(CellsOf(tab_start + 3)) = 3

====
